---- MODULE Spec2Model ----
(***************************************************************************)
(* Request Baskets, Deta Base storage backend (baskets_deta.go) and the    *)
(* HTTP handlers that drive it (handlers.go).                              *)
(*                                                                         *)
(* The persisted baskets live in a Deta Base (variable db).  Every         *)
(* Registry.Get decodes the stored item into a NEW detaBasket object       *)
(* (variable hnd): the object's fields are a private copy of the item and  *)
(* its RWMutex is private too.  Basket methods change the private copy and *)
(* send partial updates to the Base.                                       *)
(***************************************************************************)
EXTENDS Integers, Sequences, FiniteSets, TLC

VARIABLES
    db,     \* Deta Base "baskets": key -> stored item (basketData)
    hnd,    \* detaBasket objects returned by Get, one slot per holder
    now,    \* arrival clock: number of snapshots built so far
    ret,    \* what the last operation returned to its caller
    hist,   \* history per existing basket (what was asked of it since Create)
    pc,     \* concurrent request handlers: where each one is in its code
    keys,   \* detaDatabase.keys: the names GetNames has cached (nil is <<>>)
    serverConfig    \* the ServerConfig the service was started with

vars == <<db, hnd, now, ret, hist, pc, keys, serverConfig>>

----------------------------------------------------------------------------
(* Bounds of the model *)

MaxAdds == 3
MaxCap == 2
MaxPage == 2
MaxLen == 3
MaxCaptures == 2
MaxInbound == 1
IntBits == 6

Names == {"a"}
Handles == {"h1"}
Tokens == {"t1", "t2"}
Capacities == 1..MaxCap

\* The basket names of the registry specifications, in the order of their
\* keys (the order in which the Base lists its items).
KeyOrder == <<"a", "b">>
RegNames == {KeyOrder[i] : i \in DOMAIN KeyOrder}
Pages == 0..MaxPage

----------------------------------------------------------------------------
(* Small helpers on sequences *)

Min(x, y) == IF x < y THEN x ELSE y

Max(x, y) == IF x > y THEN x ELSE y

Take(s, n) == SubSeq(s, 1, Min(n, Len(s)))

Contains(s, q) ==
    \E i \in 0..(Len(s) - Len(q)) : SubSeq(s, i + 1, i + Len(q)) = q

Count(s, x) == Cardinality({i \in 1..Len(s) : s[i] = x})

----------------------------------------------------------------------------
(* Inbound HTTP requests and request snapshots (RequestData).  A string is *)
(* a sequence of characters so that substring search can be computed.      *)

Reqs ==
    { [Body |-> <<"q">>, Header |-> <<"h">>, Query |-> <<>>],
      [Body |-> <<"b">>, Header |-> <<"q">>, Query |-> <<>>] }

Queries == { <<"q">> }
Fields == {"body", "any"}

\* ToRequestData(req): the snapshot of one inbound request, stamped with its
\* arrival time.
ToRequestData(req, date) ==
    [Date |-> date, Body |-> req.Body, Header |-> req.Header, Query |-> req.Query]

\* RequestData.Matches(query, in)
Matches(request, query, in) ==
    CASE in = "body" -> Contains(request.Body, query)
      [] in = "headers" -> Contains(request.Header, query)
      [] in = "query" -> Contains(request.Query, query)
      [] OTHER -> \/ Contains(request.Body, query)
                  \/ Contains(request.Header, query)
                  \/ Contains(request.Query, query)

Configs == [ForwardURL : {""}, ProxyResponse : {FALSE}, Capacity : Capacities]

Methods == {"POST"}
ResponseConfigs == { [Status |-> 201, Body |-> "created", IsTemplate |-> FALSE] }

\* The methods and response configs of the response calls (SpecResp): two of
\* each, so that an upsert and an untouched method can be told apart.
ResponseMethods == {"GET", "POST"}
ResponseChoices ==
    { [Status |-> 201, Body |-> "created", IsTemplate |-> FALSE],
      [Status |-> 200, Body |-> "welcome", IsTemplate |-> TRUE] }

\* GenerateToken(): some random, non-empty token.
GenerateToken == Tokens

\* The service modes of the -mode flag.
ModePublic == "public"
ModeRestricted == "restricted"

\* CreateConfig(): the ServerConfig built from the command line flags.  The
\* flags are taken as given: -size is not compared with -maxsize.  The
\* master token is the -token flag, or a generated one.
ServerConfigs ==
    [InitCapacity : {1, MaxCap + 1}, MaxCapacity : {MaxCap},
     PageSize : {MaxPage}, MasterToken : {"master"},
     Mode : {ModePublic, ModeRestricted}]

\* The configuration of the specifications that do not go through the
\* handlers reading it.
DefaultServerConfig ==
    [InitCapacity |-> 1, MaxCapacity |-> MaxCap, PageSize |-> MaxPage,
     MasterToken |-> "master", Mode |-> ModePublic]

----------------------------------------------------------------------------
(* The Deta Base client calls the backend makes.  Each call is one request *)
(* to the Base; a failed call changes nothing and its error is dropped.    *)

\* base.Put in place of base.Insert: an existing item is overwritten.
BaseInsertOverwrites(d, item) ==
    [err |-> FALSE, base |-> (item.key :> item) @@ d]

\* base.Insert(data): fails when the key is taken.
BaseInsert(d, item) ==
    IF item.key \in DOMAIN d
    THEN [err |-> TRUE, base |-> d]
    ELSE [err |-> FALSE, base |-> (item.key :> item) @@ d]

\* base.Update(key, Updates{field: value}); an unknown key is an error.
BaseUpdate(d, key, field, value) ==
    IF key \in DOMAIN d THEN [d EXCEPT ![key][field] = value] ELSE d

\* base.Update(key, Updates{"requests": Prepend(data), "totalCount": Increment(1)})
BaseUpdatePrependIncrement(d, key, data) ==
    IF key \in DOMAIN d
    THEN [d EXCEPT ![key].requests = <<data>> \o @, ![key].totalCount = @ + 1]
    ELSE d

\* base.Update(key, Updates{"responses.<method>": response})
BaseUpdateResponse(d, key, method, response) ==
    IF key \in DOMAIN d
    THEN [d EXCEPT ![key].responses = (method :> response) @@ @]
    ELSE d

\* base.Delete(key)
BaseDelete(d, key) == [k \in DOMAIN d \ {key} |-> d[k]]

\* base.Get(key, dest): the stored item decoded into a detaBasket by its
\* json tags (key, token, config, requests, totalCount, responses).
BaseGet(d, key) ==
    [Key |-> d[key].key,
     Token |-> d[key].token,
     BConfig |-> d[key].config,
     Requests |-> d[key].requests,
     TotalCount |-> d[key].totalCount,
     Responses |-> d[key].responses]

----------------------------------------------------------------------------
(* Basket interface: detaBasket methods.  Each takes the Base d and the    *)
(* basket object b and yields the object and the Base after the call.      *)

\* applyLimit keeping the oldest snapshots (the tail) rather than the newest.
applyLimitKeepsTail(d, b) ==
    IF Len(b.Requests) > b.BConfig.Capacity
    THEN LET kept == SubSeq(b.Requests,
                            Len(b.Requests) - b.BConfig.Capacity + 1,
                            Len(b.Requests))
         IN [basket |-> [b EXCEPT !.Requests = kept],
             base |-> BaseUpdate(d, b.Key, "requests", kept)]
    ELSE [basket |-> b, base |-> d]

applyLimit(d, b) ==
    IF Len(b.Requests) > b.BConfig.Capacity
    THEN LET kept == SubSeq(b.Requests, 1, b.BConfig.Capacity)
         IN [basket |-> [b EXCEPT !.Requests = kept],
             base |-> BaseUpdate(d, b.Key, "requests", kept)]
    ELSE [basket |-> b, base |-> d]

Config(b) == b.BConfig

\* Update up to and including applyLimit (the first call to the Base).
UpdateApplyLimit(d, b, config) == applyLimit(d, [b EXCEPT !.BConfig = config])

\* Update that issues a new token along with the config.
UpdateRegeneratesToken(d, b, config) ==
    LET lim == UpdateApplyLimit(d, b, config)
    IN [basket |-> [lim.basket EXCEPT !.Token = "t2"],
        base |-> BaseUpdate(BaseUpdate(lim.base, b.Key, "config", config),
                            b.Key, "token", "t2")]

Update(d, b, config) ==
    LET lim == UpdateApplyLimit(d, b, config)
    IN [basket |-> lim.basket,
        base |-> BaseUpdate(lim.base, b.Key, "config", config)]

Authorize(b, token) == token = b.Token

GetResponse(b, method) ==
    IF method \in DOMAIN b.Responses
    THEN [exists |-> TRUE, response |-> b.Responses[method]]
    ELSE [exists |-> FALSE]

\* SetResponse that stores a map holding the one method only.
SetResponseReplacesAll(d, b, method, response) ==
    [basket |-> [b EXCEPT !.Responses = (method :> response)],
     base |-> IF b.Key \in DOMAIN d
              THEN [d EXCEPT ![b.Key].responses = (method :> response)]
              ELSE d]

SetResponse(d, b, method, response) ==
    [basket |-> [b EXCEPT !.Responses = (method :> response) @@ @],
     base |-> BaseUpdateResponse(d, b.Key, method, response)]

\* Add that saves the object's own request list to the Base before the
\* prepend (a read-modify-write of the whole list).
AddSavesOwnList(d, b, data) ==
    LET lim == applyLimit(d, [b EXCEPT !.Requests = <<data>> \o @,
                                       !.TotalCount = @ + 1])
    IN [basket |-> lim.basket,
        base |-> BaseUpdate(d, b.Key, "requests", Tail(lim.basket.Requests))]

\* Add up to and including applyLimit (the first call to the Base).
AddApplyLimit(d, b, data) ==
    applyLimit(d, [b EXCEPT !.Requests = <<data>> \o @, !.TotalCount = @ + 1])

Add(d, b, data) ==
    LET lim == AddApplyLimit(d, b, data)
    IN [basket |-> lim.basket,
        base |-> BaseUpdatePrependIncrement(lim.base, b.Key, data)]

\* Clear with the disabled reset of the total counter switched on.
ClearResetsTotal(d, b) ==
    [basket |-> [b EXCEPT !.Requests = <<>>, !.TotalCount = 0],
     base |-> BaseUpdate(BaseUpdate(d, b.Key, "requests", <<>>),
                         b.Key, "totalCount", 0)]

Clear(d, b) ==
    [basket |-> [b EXCEPT !.Requests = <<>>],
     base |-> BaseUpdate(d, b.Key, "requests", <<>>)]

Size(b) == Len(b.Requests)

\* GetRequests that forgets the offset: the page always starts at index 0.
GetRequestsIgnoresSkip(b, max, skip) ==
    LET size == Len(b.Requests)
    IN [Requests |-> SubSeq(b.Requests, 1, IF max > size THEN size ELSE max),
        Count |-> size,
        TotalCount |-> b.TotalCount,
        HasMore |-> skip + max < size]

\* GetRequests with HasMore computed by <= in place of <.
GetRequestsHasMoreOffByOne(b, max, skip) ==
    LET size == Len(b.Requests)
        last == skip + max
    IN [Requests |-> IF skip < size
                     THEN SubSeq(b.Requests, skip + 1,
                                 IF last > size THEN size ELSE last)
                     ELSE <<>>,
        Count |-> size,
        TotalCount |-> b.TotalCount,
        HasMore |-> last <= size]

GetRequests(b, max, skip) ==
    LET size == Size(b)
        last == skip + max
        requestsPage == [Requests |-> <<>>,
                         Count |-> size,
                         TotalCount |-> b.TotalCount,
                         HasMore |-> last < size]
    IN IF skip < size
       THEN [requestsPage EXCEPT !.Requests =
                SubSeq(b.Requests, skip + 1, IF last > size THEN size ELSE last)]
       ELSE requestsPage

\* The scan of FindRequests from position index (1-based) on, with the
\* matches collected and skipped so far.  Scanned is the number of stored
\* items the scan has examined when it returns.
RECURSIVE FindScan(_, _, _, _, _, _, _, _)
FindScan(requests, query, in, max, skip, index, result, skipped) ==
    IF index > Len(requests)
    THEN [Requests |-> result, HasMore |-> FALSE, Scanned |-> Len(requests)]
    ELSE LET hit == Matches(requests[index], query, in)
             skipped1 == IF hit /\ skipped < skip THEN skipped + 1 ELSE skipped
             result1 == IF hit /\ ~(skipped < skip)
                        THEN Append(result, requests[index])
                        ELSE result
         IN IF Len(result1) = max
            THEN [Requests |-> result1,
                  HasMore |-> (index - 1) < Len(requests) - 1,
                  Scanned |-> index]
            ELSE FindScan(requests, query, in, max, skip, index + 1,
                          result1, skipped1)

\* FindRequests reporting more results on every early exit.
FindRequestsEarlyExitHasMore(b, query, in, max, skip) ==
    LET page == FindScan(b.Requests, query, in, max, skip, 1, <<>>, 0)
    IN IF Len(page.Requests) = max /\ Len(b.Requests) > 0
       THEN [page EXCEPT !.HasMore = TRUE]
       ELSE page

FindRequests(b, query, in, max, skip) ==
    FindScan(b.Requests, query, in, max, skip, 1, <<>>, 0)

----------------------------------------------------------------------------
(* BasketsDatabase interface: detaDatabase methods. *)

Create(d, name, config, token) ==
    LET data == [key |-> name,
                 token |-> token,
                 requests |-> <<>>,
                 config |-> config,
                 responses |-> [m \in {} |-> m],
                 totalCount |-> 0]
        ins == BaseInsert(d, data)
    IN IF ins.err
       THEN [Token |-> "", err |-> <<"already exists", name>>, base |-> ins.base]
       ELSE [Token |-> token, err |-> <<>>, base |-> ins.base]

\* Get(name): a new detaBasket, or nil.
Exists(d, name) == name \in DOMAIN d

Get(d, name) == BaseGet(d, name)

\* Delete that drops every item of the Base.
DeleteDropsAll(d, name) == [k \in {} |-> k]

Delete(d, name) == BaseDelete(d, name)

\* The environment of one scan of the Base: how many items the backend puts
\* in a page (limit), which of the scan's Fetch calls fails (failAt, 0 for
\* none), and whether decoding a page into the Dest slice of the previous
\* page writes into the objects that slice already points to (reuse).
FetchEnvs ==
    [limit : 1..Len(KeyOrder), failAt : 0..Len(KeyOrder), reuse : BOOLEAN]

Rank(key) == CHOOSE i \in DOMAIN KeyOrder : KeyOrder[i] = key

\* The items the Base lists after lastKey, in key order, each decoded into a
\* detaBasket.
ItemsAfter(d, lastKey) ==
    LET from == IF lastKey = "" THEN 0 ELSE Rank(lastKey)
        IsListed(k) == k \in DOMAIN d /\ Rank(k) > from
        ks == SelectSeq(KeyOrder, IsListed)
    IN [i \in 1..Len(ks) |-> BaseGet(d, ks[i])]

\* base.Fetch(i): one page of at most limit items after i.LastKey, and the
\* key of its last item when more items follow ("" otherwise).  A failed
\* call returns "" and an error.
BaseFetch(d, lastKey, limit, ok) ==
    IF ~ok
    THEN [err |-> TRUE, lastKey |-> "", items |-> <<>>]
    ELSE LET rest == ItemsAfter(d, lastKey)
         IN [err |-> FALSE,
             lastKey |-> IF Len(rest) > limit THEN rest[limit].Key ELSE "",
             items |-> Take(rest, limit)]

\* The Dest slice of a scan: heap holds the objects decoded so far, baskets
\* the pointers (indices of heap) the slice holds now.  Decoding a page sets
\* the slice to the page's items; with reuse, item i is written into the
\* object the slice's backing array already holds at position i.
Decode(dest, items, reuse) ==
    IF reuse
    THEN [heap |-> [i \in 1..(IF Len(dest.heap) > Len(items)
                              THEN Len(dest.heap) ELSE Len(items)) |->
                       IF i <= Len(items) THEN items[i] ELSE dest.heap[i]],
          baskets |-> [i \in 1..Len(items) |-> i]]
    ELSE [heap |-> dest.heap \o items,
          baskets |-> [i \in 1..Len(items) |-> Len(dest.heap) + i]]

\* The fetch loop of GetAllNames from its fetchNo-th Fetch on: results holds
\* the pointers appended so far.  A failed Fetch leaves the Dest slice as it
\* was, and the slice is appended all the same.
RECURSIVE ScanNames(_, _, _, _, _, _)
ScanNames(d, env, lastKey, fetchNo, dest, results) ==
    LET f == BaseFetch(d, lastKey, env.limit, fetchNo # env.failAt)
        dest1 == IF f.err THEN dest ELSE Decode(dest, f.items, env.reuse)
        results1 == results \o dest1.baskets
    IN IF f.lastKey # ""
       THEN ScanNames(d, env, f.lastKey, fetchNo + 1, dest1, results1)
       ELSE [i \in 1..Len(results1) |-> dest1.heap[results1[i]].Key]

\* GetAllNames that stops after the first page.
GetAllNamesFirstPageOnly(d, env) ==
    LET f == BaseFetch(d, "", env.limit, 1 # env.failAt)
    IN [i \in 1..Len(f.items) |-> f.items[i].Key]

GetAllNames(d, env) ==
    ScanNames(d, env, "", 1, [heap |-> <<>>, baskets |-> <<>>], <<>>)

RegistrySize(d, env) == Len(GetAllNames(d, env))

\* GetNames(max, skip): the page, and db.keys after the call.
GetNames(d, cached, max, skip, env) ==
    LET keys1 == IF skip = 0 \/ cached = <<>> THEN GetAllNames(d, env)
                 ELSE cached
        size == Len(keys1)
        last == skip + max
        namesPage == [Names |-> <<>>, Count |-> size, HasMore |-> last < size]
    IN [keys |-> keys1,
        page |-> IF skip < size
                 THEN [namesPage EXCEPT !.Names =
                          SubSeq(keys1, skip + 1,
                                 IF last > size THEN size ELSE last)]
                 ELSE namesPage]

\* FindNames(query, max, skip): the scan of the names is disabled.
FindNames(d, query, max, skip) == [Names |-> <<>>, HasMore |-> FALSE]

\* The BasketInfo GetStats builds of one fetched basket.
BasketInfo(v) ==
    [Name |-> v.Key,
     RequestsCount |-> Size(v),
     RequestsTotalCount |-> v.TotalCount,
     LastRequestDate |-> IF Size(v) > 0
                         THEN GetRequests(v, 1, 0).Requests[1].Date
                         ELSE 0]

\* The fetch loop of GetStats from its fetchNo-th Fetch on: infos holds the
\* BasketInfo values handed to stats.Collect so far, baskets the Dest slice.
RECURSIVE ScanStats(_, _, _, _, _, _)
ScanStats(d, env, lastKey, fetchNo, baskets, infos) ==
    LET f == BaseFetch(d, lastKey, env.limit, fetchNo # env.failAt)
        baskets1 == IF f.err THEN baskets ELSE f.items
        infos1 == infos \o [i \in 1..Len(baskets1) |-> BasketInfo(baskets1[i])]
    IN IF f.lastKey # ""
       THEN ScanStats(d, env, f.lastKey, fetchNo + 1, baskets1, infos1)
       ELSE infos1

\* GetStats that collects the first page only.
GetStatsFirstPageOnly(d, max, env) ==
    LET f == BaseFetch(d, "", env.limit, 1 # env.failAt)
    IN [i \in 1..Len(f.items) |-> BasketInfo(f.items[i])]

\* GetStats(max): the BasketInfo values folded into the statistics, in the
\* order of the calls of stats.Collect(info, max).
GetStats(d, max, env) == ScanStats(d, env, "", 1, <<>>, <<>>)

----------------------------------------------------------------------------
(* The state machine.  One action per call; a call is atomic here (the     *)
(* calls of one holder are sequential, and holders take turns).            *)

NoRet == [op |-> "none"]

\* What the history of a new basket records: every snapshot added since
\* Create (newest first), whether anything but Add has changed the basket,
\* and whether every change was made through an object that Registry.Get had
\* just returned; and the response config last set for each method.
NewHist ==
    [log |-> <<>>, onlyAdds |-> TRUE, clean |-> TRUE, set |-> [m \in {} |-> m]]

\* The call that follows is made on the object Registry.Get has just returned,
\* as in the handlers (basketsDb.Get(name), then one call on the basket).
IsFresh(h) == ret.op = "Get" /\ ret.h = h

Note(h, added, isAdd) ==
    LET key == hnd[h].Key
    IN IF Exists(db, key)
       THEN [hist EXCEPT ![key].log = added \o @,
                         ![key].onlyAdds = @ /\ isAdd,
                         ![key].clean = @ /\ IsFresh(h)]
       ELSE hist

NoteResponse(h, method, response) ==
    LET key == hnd[h].Key
        noted == Note(h, <<>>, FALSE)
    IN IF Exists(db, key)
       THEN [noted EXCEPT ![key].set = (method :> response) @@ @]
       ELSE noted

Init ==
    /\ db = [n \in {} |-> n]
    /\ hnd = [h \in {} |-> h]
    /\ now = 0
    /\ ret = NoRet
    /\ hist = [n \in {} |-> n]
    /\ pc = [p \in {} |-> p]
    /\ keys = <<>>
    /\ serverConfig = DefaultServerConfig

CallCreate(name, config, token) ==
    LET r == Create(db, name, config, token)
    IN /\ db' = r.base
       /\ ret' = [op |-> "Create", name |-> name, Token |-> r.Token,
                  err |-> r.err, before |-> db]
       /\ hist' = IF r.err = <<>> THEN (name :> NewHist) @@ hist ELSE hist
       /\ UNCHANGED <<hnd, now, pc, keys, serverConfig>>

CallDelete(name) ==
    /\ db' = Delete(db, name)
    /\ hist' = [n \in DOMAIN hist \ {name} |-> hist[n]]
    /\ ret' = [op |-> "Delete", name |-> name, before |-> db]
    /\ UNCHANGED <<hnd, now, pc, keys, serverConfig>>

CallGet(h, name) ==
    /\ hnd' = IF Exists(db, name)
              THEN (h :> Get(db, name)) @@ hnd
              ELSE [x \in DOMAIN hnd \ {h} |-> hnd[x]]
    /\ ret' = IF Exists(db, name)
              THEN [op |-> "Get", h |-> h]
              ELSE [op |-> "GetNil", name |-> name]
    /\ UNCHANGED <<db, now, hist, pc, keys, serverConfig>>

CallAdd(h, req) ==
    /\ h \in DOMAIN hnd
    /\ now < MaxAdds
    /\ LET data == ToRequestData(req, now + 1)
           r == Add(db, hnd[h], data)
       IN /\ db' = r.base
          /\ hnd' = [hnd EXCEPT ![h] = r.basket]
          /\ hist' = Note(h, <<data>>, TRUE)
    /\ now' = now + 1
    /\ ret' = NoRet
    /\ UNCHANGED <<pc, keys, serverConfig>>

CallUpdate(h, config) ==
    /\ h \in DOMAIN hnd
    /\ LET r == Update(db, hnd[h], config)
       IN /\ db' = r.base
          /\ hnd' = [hnd EXCEPT ![h] = r.basket]
    /\ hist' = Note(h, <<>>, FALSE)
    /\ ret' = [op |-> "Update", h |-> h, config |-> config,
               before |-> hnd[h].Requests]
    /\ UNCHANGED <<now, pc, keys, serverConfig>>

CallSetResponse(h, method, response) ==
    /\ h \in DOMAIN hnd
    /\ LET r == SetResponse(db, hnd[h], method, response)
       IN /\ db' = r.base
          /\ hnd' = [hnd EXCEPT ![h] = r.basket]
    /\ hist' = NoteResponse(h, method, response)
    /\ ret' = [op |-> "SetResponse", h |-> h, method |-> method,
               response |-> response, before |-> hnd[h], base |-> db]
    /\ UNCHANGED <<now, pc, keys, serverConfig>>

CallGetResponse(h, method) ==
    /\ h \in DOMAIN hnd
    /\ ret' = [op |-> "GetResponse", h |-> h, method |-> method,
               fresh |-> IsFresh(h), result |-> GetResponse(hnd[h], method)]
    /\ UNCHANGED <<db, hnd, now, hist, pc, keys, serverConfig>>

CallClear(h) ==
    /\ h \in DOMAIN hnd
    /\ LET r == Clear(db, hnd[h])
       IN /\ db' = r.base
          /\ hnd' = [hnd EXCEPT ![h] = r.basket]
    /\ hist' = Note(h, <<>>, FALSE)
    /\ ret' = [op |-> "Clear", h |-> h, before |-> hnd[h], base |-> db]
    /\ UNCHANGED <<now, pc, keys, serverConfig>>

CallGetRequests(h, max, skip) ==
    /\ h \in DOMAIN hnd
    /\ ret' = [op |-> "GetRequests", h |-> h, max |-> max, skip |-> skip,
               page |-> GetRequests(hnd[h], max, skip)]
    /\ UNCHANGED <<db, hnd, now, hist, pc, keys, serverConfig>>

CallFindRequests(h, query, in, max, skip) ==
    /\ h \in DOMAIN hnd
    /\ ret' = [op |-> "FindRequests", h |-> h, query |-> query, in |-> in,
               max |-> max, skip |-> skip,
               page |-> FindRequests(hnd[h], query, in, max, skip)]
    /\ UNCHANGED <<db, hnd, now, hist, pc, keys, serverConfig>>

\* AcceptBasketRequests up to basket.Add, as one step: Get, then Add on the
\* object Get returned.
CallCapture(name, req) ==
    /\ Exists(db, name)
    /\ now < MaxCaptures
    /\ LET data == ToRequestData(req, now + 1)
       IN /\ db' = Add(db, Get(db, name), data).base
          /\ hist' = [hist EXCEPT ![name].log = <<data>> \o @]
    /\ now' = now + 1
    /\ ret' = NoRet
    /\ UNCHANGED <<hnd, pc, keys, serverConfig>>

CallSize(env) ==
    /\ ret' = [op |-> "Size", env |-> env, size |-> RegistrySize(db, env)]
    /\ UNCHANGED <<db, hnd, now, hist, pc, keys, serverConfig>>

CallGetNames(max, skip, env) ==
    LET r == GetNames(db, keys, max, skip, env)
    IN /\ keys' = r.keys
       /\ ret' = [op |-> "GetNames", max |-> max, skip |-> skip, env |-> env,
                  page |-> r.page]
       /\ UNCHANGED <<db, hnd, now, hist, pc, serverConfig>>

CallFindNames(query, max, skip) ==
    /\ ret' = [op |-> "FindNames", query |-> query, max |-> max,
               skip |-> skip, page |-> FindNames(db, query, max, skip)]
    /\ UNCHANGED <<db, hnd, now, hist, pc, keys, serverConfig>>

CallGetStats(max, env) ==
    /\ ret' = [op |-> "GetStats", max |-> max, env |-> env,
               infos |-> GetStats(db, max, env)]
    /\ UNCHANGED <<db, hnd, now, hist, pc, keys, serverConfig>>

Next ==
    \/ \E name \in Names, config \in Configs, token \in GenerateToken :
          CallCreate(name, config, token)
    \/ \E name \in Names : CallDelete(name)
    \/ \E h \in Handles, name \in Names : CallGet(h, name)
    \/ \E h \in Handles, req \in Reqs : CallAdd(h, req)
    \/ \E h \in Handles, config \in Configs : CallUpdate(h, config)
    \/ \E h \in Handles, method \in Methods, response \in ResponseConfigs :
          CallSetResponse(h, method, response)
    \/ \E h \in Handles : CallClear(h)

\* A basket object as some history of Adds (and evictions) leaves it: n
\* snapshots, newest first, and a total that counts the evicted ones too.
BasketOf(reqs, evicted) ==
    [Key |-> "a",
     Token |-> "t1",
     BConfig |-> [ForwardURL |-> "", ProxyResponse |-> FALSE,
                 Capacity |-> MaxLen],
     Requests |-> [i \in 1..Len(reqs) |->
                     ToRequestData(reqs[i], evicted + Len(reqs) + 1 - i)],
     TotalCount |-> evicted + Len(reqs),
     Responses |-> [m \in {} |-> m]]

InitRead ==
    /\ db = [n \in {} |-> n]
    /\ \E n \in 0..MaxLen, evicted \in 0..1 :
          \E reqs \in [1..n -> Reqs] :
             hnd = ("h1" :> BasketOf(reqs, evicted))
    /\ now = 0
    /\ ret = NoRet
    /\ hist = [n \in {} |-> n]
    /\ pc = [p \in {} |-> p]
    /\ keys = <<>>
    /\ serverConfig = DefaultServerConfig

NextRead ==
    \/ \E h \in Handles, max \in Pages, skip \in Pages :
          CallGetRequests(h, max, skip)
    \/ \E h \in Handles, query \in Queries, in \in Fields,
          max \in Pages, skip \in Pages :
          CallFindRequests(h, query, in, max, skip)

Spec == Init /\ [][Next]_vars

\* The read-only calls, applied to every basket object within the bounds.
SpecRead == InitRead /\ [][NextRead]_vars

----------------------------------------------------------------------------
(* The response calls (SpecResp): GetBasketResponse and                    *)
(* UpdateBasketResponse on a basket that holds requests, with two methods  *)
(* and two response configs, while the basket is deleted and created anew. *)

InitResp ==
    /\ \E n \in 0..1, evicted \in 0..1 :
          LET requests == [i \in 1..n |->
                             ToRequestData([Body |-> <<"b">>, Header |-> <<"h">>,
                                            Query |-> <<>>], evicted + 1)]
          IN /\ db = ("a" :> [key |-> "a",
                              token |-> "t1",
                              requests |-> requests,
                              config |-> [ForwardURL |-> "", ProxyResponse |-> FALSE,
                                         Capacity |-> 1],
                              responses |-> [m \in {} |-> m],
                              totalCount |-> evicted + n])
             /\ hist = ("a" :> [NewHist EXCEPT !.log = requests,
                                               !.clean = FALSE])
             /\ now = evicted + n
    /\ hnd = [h \in {} |-> h]
    /\ ret = NoRet
    /\ pc = [p \in {} |-> p]
    /\ keys = <<>>
    /\ serverConfig = DefaultServerConfig

NextResp ==
    \/ \E name \in Names, config \in Configs, token \in GenerateToken :
          CallCreate(name, config, token)
    \/ \E name \in Names : CallDelete(name)
    \/ \E h \in Handles, name \in Names : CallGet(h, name)
    \/ \E h \in Handles, method \in ResponseMethods,
          response \in ResponseChoices :
          CallSetResponse(h, method, response)
    \/ \E h \in Handles, method \in ResponseMethods :
          CallGetResponse(h, method)

SpecResp == InitResp /\ [][NextResp]_vars

----------------------------------------------------------------------------
(* The registry (SpecReg, SpecNames, SpecStats): several baskets, and the  *)
(* calls that scan the Base page by page.  SpecReg has Create, Delete and  *)
(* Get on baskets that hold requests, SpecNames the listing calls on empty *)
(* baskets, SpecStats the statistics of baskets that hold requests.        *)

RegConfig == [ForwardURL |-> "", ProxyResponse |-> FALSE, Capacity |-> 1]

NameQueries == { <<"a">> }

NextReg ==
    \/ \E name \in RegNames, token \in GenerateToken :
          CallCreate(name, RegConfig, token)
    \/ \E name \in RegNames : CallDelete(name)
    \/ \E h \in Handles, name \in RegNames : CallGet(h, name)
    \/ \E name \in RegNames, req \in Reqs : CallCapture(name, req)

SpecReg == Init /\ [][NextReg]_vars

NextNames ==
    \/ \E name \in RegNames : CallCreate(name, RegConfig, "t1")
    \/ \E name \in RegNames : CallDelete(name)
    \/ \E env \in FetchEnvs : CallSize(env)
    \/ \E max \in Pages, skip \in Pages, env \in FetchEnvs :
          CallGetNames(max, skip, env)
    \/ \E query \in NameQueries, max \in Pages, skip \in Pages :
          CallFindNames(query, max, skip)

SpecNames == Init /\ [][NextNames]_vars

NextStats ==
    \/ \E name \in RegNames : CallCreate(name, RegConfig, "t1")
    \/ \E name \in RegNames : CallDelete(name)
    \/ \E name \in RegNames, req \in Reqs : CallCapture(name, req)
    \/ \E max \in 1..MaxPage, env \in FetchEnvs : CallGetStats(max, env)

SpecStats == Init /\ [][NextStats]_vars

----------------------------------------------------------------------------
(* Capture with forwarding (SpecFwd).  A handler of AcceptBasketRequests   *)
(* is a process named by a sequence: <<i>> handles the i-th request of an  *)
(* outside client, and p \o <<0>> handles the copy that handler p has      *)
(* forwarded to a basket of this service.  pc[p] holds the request (to,    *)
(* method, mark: it carries the do-not-forward header), where the handler  *)
(* is (at), what it did about forwarding (mode), the state of its outbound *)
(* call (fwd) and what it has written to its caller (reply).               *)

FwdNames == {"a", "b"}

\* Forward URLs: none, the capture path of a basket of this service, or a
\* server elsewhere.
ForwardURLs == {"", "/a", "/b", "http://ext"}

TargetOf(url) ==
    CASE url = "/a" -> "a"
      [] url = "/b" -> "b"
      [] OTHER -> "ext"

\* What a server elsewhere may answer.
ExtResponses ==
    { [StatusCode |-> 404, Header |-> <<"x-ext">>, Body |-> "not here"] }

FwdReq == [Body |-> <<"b">>, Header |-> <<"h">>, Query |-> <<>>]

FwdResponse ==
    [Status |-> 201, Headers |-> <<"x-basket">>, Body |-> "created",
     IsTemplate |-> FALSE]

defaultResponse ==
    [Status |-> 200, Headers |-> <<>>, Body |-> "", IsTemplate |-> FALSE]

\* template.Parse(body) succeeds.
TemplateParses(body) == body # "{{"

NoReply == [from |-> "none"]

\* http.Error(w, message, 500)
ErrorReply ==
    [from |-> "error", Status |-> 500, Headers |-> <<>>, Body |-> "error"]

\* writeBasketResponse with the default response for every method.
writeDefaultResponse(b, method) ==
    [from |-> "basket", Status |-> defaultResponse.Status,
     Headers |-> defaultResponse.Headers, Body |-> defaultResponse.Body]

writeBasketResponse(b, method) ==
    LET found == GetResponse(b, method)
        response == IF found.exists THEN found.response ELSE defaultResponse
    IN IF response.IsTemplate /\ response.Body # ""
          /\ ~TemplateParses(response.Body)
       THEN ErrorReply
       ELSE [from |-> "basket", Status |-> response.Status,
             Headers |-> response.Headers, Body |-> response.Body]

\* Forwarding whatever headers the request carries.
ShouldForwardIgnoresMarker(config, mark) == config.ForwardURL # ""

\* len(config.ForwardURL) > 0 && r.Header.Get(DoNotForwardHeader) != "1"
ShouldForward(config, mark) == config.ForwardURL # "" /\ ~mark

\* RequestData.Forward: the outbound copy of a captured request, sent to
\* the basket "to" of this service; it carries the do-not-forward header.
ForwardCopy(h, to) ==
    [at |-> "get", to |-> to, method |-> h.method, mark |-> TRUE,
     mode |-> "none", fwd |-> "none", reply |-> NoReply]

\* forwardAndForget letting a failed forward reach the caller.
forwardAndForgetSurfacesError(h, outcome) ==
    IF outcome.err
    THEN [h EXCEPT !.fwd = "err", !.reply = ErrorReply]
    ELSE [h EXCEPT !.fwd = "ok"]

\* forwardAndForget once request.Forward has returned: the error is
\* logged or the response body is discarded.
forwardAndForget(h, outcome) ==
    IF outcome.err
    THEN [h EXCEPT !.fwd = "err"]
    ELSE [h EXCEPT !.fwd = "ok"]

\* forwardAndProxyResponse answering a failed forward with the status of
\* the upstream response it did not get (200).
forwardAndProxyResponseHidesFailure(h, outcome) ==
    IF outcome.err
    THEN [h EXCEPT !.fwd = "err", !.at = "done",
                   !.reply = [from |-> "upstream", Status |-> 200,
                              Headers |-> <<>>, Body |-> ""]]
    ELSE [h EXCEPT !.fwd = "ok", !.at = "done",
                   !.reply = [from |-> "upstream",
                              Status |-> outcome.response.StatusCode,
                              Headers |-> outcome.response.Header,
                              Body |-> outcome.response.Body]]

\* forwardAndProxyResponse once request.Forward has returned.
forwardAndProxyResponse(h, outcome) ==
    IF outcome.err
    THEN [h EXCEPT !.fwd = "err", !.at = "done", !.reply = ErrorReply]
    ELSE [h EXCEPT !.fwd = "ok", !.at = "done",
                   !.reply = [from |-> "upstream",
                              Status |-> outcome.response.StatusCode,
                              Headers |-> outcome.response.Header,
                              Body |-> outcome.response.Body]]

InitFwd ==
    /\ \E urlA \in ForwardURLs, proxyA \in BOOLEAN, setA \in BOOLEAN,
          urlB \in ForwardURLs, proxyB \in BOOLEAN, hasB \in BOOLEAN :
          LET item(name, url, proxy, responses) ==
                 [key |-> name, token |-> "t1", requests |-> <<>>,
                  config |-> [ForwardURL |-> url, ProxyResponse |-> proxy,
                              Capacity |-> MaxLen],
                  responses |-> responses, totalCount |-> 0]
              a == "a" :> item("a", urlA, proxyA,
                               IF setA THEN "POST" :> FwdResponse
                               ELSE [m \in {} |-> m])
              b == "b" :> item("b", urlB, proxyB, [m \in {} |-> m])
          IN /\ hasB \/ (urlB = "" /\ ~proxyB)
             /\ db = IF hasB THEN a @@ b ELSE a
             /\ hist = [n \in DOMAIN db |-> NewHist]
    /\ hnd = [h \in {} |-> h]
    /\ now = 0
    /\ ret = NoRet
    /\ pc = [p \in {} |-> p]
    /\ keys = <<>>
    /\ serverConfig = DefaultServerConfig

\* An outside client sends its i-th request to the capture path of "to".
ClientSend(i, to, mark, method) ==
    /\ <<i>> \notin DOMAIN pc
    /\ pc' = (<<i>> :> [at |-> "get", to |-> to, method |-> method,
                        mark |-> mark, mode |-> "none", fwd |-> "none",
                        reply |-> NoReply]) @@ pc
    /\ UNCHANGED <<db, hnd, now, ret, hist, keys, serverConfig>>

\* AcceptBasketRequests that decides on forwarding and goes on without
\* calling basket.Add.
AcceptWithoutAdd(p) ==
    /\ p \in DOMAIN pc
    /\ pc[p].at = "get"
    /\ IF Exists(db, pc[p].to)
       THEN LET basket == Get(db, pc[p].to)
                config == Config(basket)
            IN /\ hnd' = (p :> basket) @@ hnd
               /\ pc' = [pc EXCEPT ![p] =
                            IF ShouldForward(config, pc[p].mark)
                            THEN IF config.ProxyResponse
                                 THEN [@ EXCEPT !.at = "proxy", !.mode = "proxy"]
                                 ELSE [@ EXCEPT !.at = "respond", !.mode = "forget"]
                            ELSE [@ EXCEPT !.at = "respond"]]
       ELSE /\ pc' = [pc EXCEPT ![p].at = "done",
                                ![p].reply = [from |-> "nobasket", Status |-> 404,
                                              Headers |-> <<>>, Body |-> ""]]
            /\ UNCHANGED hnd
    /\ UNCHANGED <<db, now, hist, ret, keys, serverConfig>>

\* AcceptBasketRequests from basketsDb.Get up to the decision on forwarding:
\* 404 without a basket; else the request is added, and the handler goes on
\* to proxy the forward, or to reply (with forwardAndForget started on a
\* goroutine, or without forwarding).
AcceptGetAdd(p) ==
    /\ p \in DOMAIN pc
    /\ pc[p].at = "get"
    /\ IF Exists(db, pc[p].to)
       THEN LET data == ToRequestData(FwdReq, now + 1)
                r == Add(db, Get(db, pc[p].to), data)
                config == Config(r.basket)
            IN /\ db' = r.base
               /\ hnd' = (p :> r.basket) @@ hnd
               /\ hist' = [hist EXCEPT ![pc[p].to].log = <<data>> \o @]
               /\ now' = now + 1
               /\ pc' = [pc EXCEPT ![p] =
                            IF ShouldForward(config, pc[p].mark)
                            THEN IF config.ProxyResponse
                                 THEN [@ EXCEPT !.at = "proxy", !.mode = "proxy"]
                                 ELSE [@ EXCEPT !.at = "respond", !.mode = "forget"]
                            ELSE [@ EXCEPT !.at = "respond"]]
       ELSE /\ pc' = [pc EXCEPT ![p].at = "done",
                                ![p].reply = [from |-> "nobasket", Status |-> 404,
                                              Headers |-> <<>>, Body |-> ""]]
            /\ UNCHANGED <<db, hnd, now, hist>>
    /\ UNCHANGED <<ret, keys, serverConfig>>

\* request.Forward issues the outbound call; when the forward URL is the
\* capture path of a basket of this service, the copy arrives there.
ForwardSend(p) ==
    /\ p \in DOMAIN pc
    /\ pc[p].mode \in {"proxy", "forget"}
    /\ pc[p].fwd = "none"
    /\ LET target == TargetOf(Config(hnd[p]).ForwardURL)
           sent == [pc EXCEPT ![p].fwd = "pending"]
       IN pc' = IF target \in FwdNames
                THEN (Append(p, 0) :> ForwardCopy(pc[p], target)) @@ sent
                ELSE sent
    /\ UNCHANGED <<db, hnd, now, ret, hist, keys, serverConfig>>

\* How the outbound call of p may return now: with an error (at any time),
\* or with the response of its target once there is one.
Outcomes(p) ==
    LET target == TargetOf(Config(hnd[p]).ForwardURL)
        copy == Append(p, 0)
    IN {[err |-> TRUE]}
       \cup (IF target \in FwdNames
             THEN IF pc[copy].reply # NoReply
                  THEN {[err |-> FALSE,
                         response |-> [StatusCode |-> pc[copy].reply.Status,
                                       Header |-> pc[copy].reply.Headers,
                                       Body |-> pc[copy].reply.Body]]}
                  ELSE {}
             ELSE {[err |-> FALSE, response |-> r] : r \in ExtResponses})

\* The goroutine of forwardAndForget gets the result of request.Forward.
ForgetResolve(p) ==
    /\ p \in DOMAIN pc
    /\ pc[p].mode = "forget"
    /\ pc[p].fwd = "pending"
    /\ \E outcome \in Outcomes(p) :
          pc' = [pc EXCEPT ![p] = forwardAndForget(@, outcome)]
    /\ UNCHANGED <<db, hnd, now, ret, hist, keys, serverConfig>>

\* forwardAndProxyResponse gets the result of request.Forward and replies.
ProxyResolve(p) ==
    /\ p \in DOMAIN pc
    /\ pc[p].mode = "proxy"
    /\ pc[p].fwd = "pending"
    /\ \E outcome \in Outcomes(p) :
          pc' = [pc EXCEPT ![p] = forwardAndProxyResponse(@, outcome)]
    /\ UNCHANGED <<db, hnd, now, ret, hist, keys, serverConfig>>

\* writeBasketResponse(w, r, name, basket)
Respond(p) ==
    /\ p \in DOMAIN pc
    /\ pc[p].at = "respond"
    /\ pc' = [pc EXCEPT ![p].at = "done",
                        ![p].reply = writeBasketResponse(hnd[p], pc[p].method)]
    /\ UNCHANGED <<db, hnd, now, ret, hist, keys, serverConfig>>

NextFwd ==
    \/ \E i \in 1..MaxInbound, to \in FwdNames, mark \in BOOLEAN :
          ClientSend(i, to, mark, "POST")
    \/ \E p \in DOMAIN pc : AcceptGetAdd(p)
    \/ \E p \in DOMAIN pc : ForwardSend(p)
    \/ \E p \in DOMAIN pc : ForgetResolve(p)
    \/ \E p \in DOMAIN pc : ProxyResolve(p)
    \/ \E p \in DOMAIN pc : Respond(p)

SpecFwd == InitFwd /\ [][NextFwd]_vars

\* The reply to a captured request (SpecReply): basket "a" forwards nothing
\* and holds any response configs for GET and POST, a template that does not
\* parse among them (Basket.SetResponse stores what it is given); requests of
\* three methods arrive.
ReplyMethods == {"GET", "POST", "PUT"}

ReplyChoices ==
    { FwdResponse,
      [Status |-> 200, Headers |-> <<>>, Body |-> "welcome", IsTemplate |-> TRUE],
      [Status |-> 404, Headers |-> <<>>, Body |-> "{{", IsTemplate |-> TRUE] }

InitReply ==
    /\ \E stored \in SUBSET ResponseMethods :
          \E responses \in [stored -> ReplyChoices] :
             db = ("a" :> [key |-> "a", token |-> "t1", requests |-> <<>>,
                           config |-> [ForwardURL |-> "",
                                       ProxyResponse |-> FALSE,
                                       Capacity |-> MaxLen],
                           responses |-> responses, totalCount |-> 0])
    /\ hist = ("a" :> NewHist)
    /\ hnd = [h \in {} |-> h]
    /\ now = 0
    /\ ret = NoRet
    /\ pc = [p \in {} |-> p]
    /\ keys = <<>>
    /\ serverConfig = DefaultServerConfig

NextReply ==
    \/ \E i \in 1..MaxInbound, to \in FwdNames, method \in ReplyMethods :
          ClientSend(i, to, FALSE, method)
    \/ \E p \in DOMAIN pc : AcceptGetAdd(p)
    \/ \E p \in DOMAIN pc : Respond(p)

SpecReply == InitReply /\ [][NextReply]_vars

----------------------------------------------------------------------------
(* Concurrent request handlers on one basket (SpecConc).  Every handler    *)
(* calls basketsDb.Get first and so works on a detaBasket of its own: the  *)
(* RWMutex it locks is the one of its own object and is never contended.   *)
(* What the handlers share is the Base, so a step here is one call to the  *)
(* Base together with the private work that precedes it.                   *)

Captures == {"c1", "c2"}    \* AcceptBasketRequests: Get, then Add
Apis == {"x1"}              \* ClearBasket or UpdateBasket: Get, then the call
Procs == Captures \cup Apis

At(p, where) == pc[p].at = where

InitConc ==
    /\ \E capacity \in Capacities, n \in 0..MaxCap :
          /\ n <= capacity
          /\ LET requests == [i \in 1..n |->
                    ToRequestData([Body |-> <<"b">>, Header |-> <<"h">>,
                                   Query |-> <<>>], n + 1 - i)]
             IN /\ db = ("a" :> [key |-> "a",
                                 token |-> "t1",
                                 requests |-> requests,
                                 config |-> [ForwardURL |-> "",
                                             ProxyResponse |-> FALSE,
                                             Capacity |-> capacity],
                                 responses |-> [m \in {} |-> m],
                                 totalCount |-> n])
                /\ hist = ("a" :> [log |-> requests, onlyAdds |-> TRUE,
                                   clean |-> FALSE,
                                   set |-> [m \in {} |-> m]])
                /\ now = n
    /\ hnd = [h \in {} |-> h]
    /\ ret = NoRet
    /\ pc = [p \in Procs |-> [at |-> "get"]]
    /\ keys = <<>>
    /\ serverConfig = DefaultServerConfig

\* basket := basketsDb.Get(name)
HandlerGet(p) ==
    /\ At(p, "get")
    /\ Exists(db, "a")
    /\ hnd' = (p :> Get(db, "a")) @@ hnd
    /\ pc' = [pc EXCEPT ![p] = [at |-> "call"]]
    /\ UNCHANGED <<db, now, ret, hist, keys, serverConfig>>

\* basket.Add(r), up to and including applyLimit
CaptureAddApplyLimit(p, req) ==
    /\ p \in Captures
    /\ At(p, "call")
    /\ LET data == ToRequestData(req, now + 1)
           lim == AddApplyLimit(db, hnd[p], data)
       IN /\ db' = lim.base
          /\ hnd' = [hnd EXCEPT ![p] = lim.basket]
          /\ pc' = [pc EXCEPT ![p] = [at |-> "persist", data |-> data]]
    /\ now' = now + 1
    /\ UNCHANGED <<ret, hist, keys, serverConfig>>

\* The final base.Update of Add writing the counter of the object in place
\* of Increment(1).
CaptureAddPersistOwnCount(p) ==
    /\ p \in Captures
    /\ At(p, "persist")
    /\ db' = [db EXCEPT !["a"].requests = <<pc[p].data>> \o @,
                        !["a"].totalCount = hnd[p].TotalCount]
    /\ hist' = [hist EXCEPT !["a"].log = <<pc[p].data>> \o @]
    /\ pc' = [pc EXCEPT ![p].at = "done"]
    /\ UNCHANGED <<hnd, now, ret, keys, serverConfig>>

\* basket.Add(r), the final base.Update
CaptureAddPersist(p) ==
    /\ p \in Captures
    /\ At(p, "persist")
    /\ db' = BaseUpdatePrependIncrement(db, hnd[p].Key, pc[p].data)
    /\ hist' = [hist EXCEPT !["a"].log = <<pc[p].data>> \o @]
    /\ pc' = [pc EXCEPT ![p].at = "done"]
    /\ UNCHANGED <<hnd, now, ret, keys, serverConfig>>

\* basket.Clear()
ApiClear(p) ==
    /\ p \in Apis
    /\ At(p, "call")
    /\ LET r == Clear(db, hnd[p])
       IN /\ db' = r.base
          /\ hnd' = [hnd EXCEPT ![p] = r.basket]
    /\ hist' = [hist EXCEPT !["a"].onlyAdds = FALSE]
    /\ pc' = [pc EXCEPT ![p] = [at |-> "done"]]
    /\ UNCHANGED <<now, ret, keys, serverConfig>>

\* basket.Update(config), up to and including applyLimit
ApiUpdateApplyLimit(p, config) ==
    /\ p \in Apis
    /\ At(p, "call")
    /\ LET lim == UpdateApplyLimit(db, hnd[p], config)
       IN /\ db' = lim.base
          /\ hnd' = [hnd EXCEPT ![p] = lim.basket]
    /\ hist' = [hist EXCEPT !["a"].onlyAdds = FALSE]
    /\ pc' = [pc EXCEPT ![p] = [at |-> "persist", config |-> config]]
    /\ UNCHANGED <<now, ret, keys, serverConfig>>

\* basket.Update(config), the final base.Update
ApiUpdatePersist(p) ==
    /\ p \in Apis
    /\ At(p, "persist")
    /\ db' = BaseUpdate(db, hnd[p].Key, "config", pc[p].config)
    /\ pc' = [pc EXCEPT ![p] = [at |-> "done"]]
    /\ UNCHANGED <<hnd, now, ret, hist, keys, serverConfig>>

NextConc ==
    \/ \E p \in Procs : HandlerGet(p)
    \/ \E p \in Captures, req \in Reqs : CaptureAddApplyLimit(p, req)
    \/ \E p \in Captures : CaptureAddPersist(p)
    \/ \E p \in Apis : ApiClear(p)
    \/ \E p \in Apis, config \in Configs : ApiUpdateApplyLimit(p, config)
    \/ \E p \in Apis : ApiUpdatePersist(p)

SpecConc == InitConc /\ [][NextConc]_vars

----------------------------------------------------------------------------
(* One basket object and the calls made on it (SpecHandle): the basket is  *)
(* created, Registry.Get returns the object, and from then on the basket   *)
(* is changed through this object only.                                    *)

\* The history of the basket holds the token Create has returned as well.
InitHandle ==
    /\ \E config \in Configs, token \in GenerateToken :
          LET created == Create([n \in {} |-> n], "a", config, token)
          IN /\ db = created.base
             /\ hist = ("a" :> ([token |-> created.Token] @@ NewHist))
    /\ hnd = [h \in Handles |-> Get(db, "a")]
    /\ now = 0
    /\ ret = [op |-> "Get", h |-> "h1"]
    /\ pc = [p \in {} |-> p]
    /\ keys = <<>>
    /\ serverConfig = DefaultServerConfig

NextHandle ==
    \E h \in Handles :
        \/ \E req \in Reqs : CallAdd(h, req)
        \/ \E config \in Configs : CallUpdate(h, config)
        \/ \E m \in ResponseMethods, response \in ResponseChoices :
              CallSetResponse(h, m, response)
        \/ CallClear(h)

SpecHandle == InitHandle /\ [][NextHandle]_vars

----------------------------------------------------------------------------
(* Pagination parameters (SpecPage).  A query parameter is absent (or      *)
(* empty), or a text that is no decimal integer, or the decimal text of an *)
(* integer, which may lie outside the range of the int type.  The int type *)
(* is IntBits wide here.                                                   *)

MinInt == -(2 ^ (IntBits - 1))
MaxInt == 2 ^ (IntBits - 1) - 1

Absent == [kind |-> "absent"]
NoInteger == [kind |-> "text"]
Decimal(i) == [kind |-> "int", i |-> i]

\* The integers tried: around the ends of the int type and around the ends
\* of the two ranges of getPage.
QueryInts ==
    {MinInt - 1, MinInt, MaxInt, MaxInt + 1}
        \cup (-1)..(MaxCap + 1)
        \cup { MaxPage * 10 + d : d \in {-1, 0, 1} }

QueryValues == {Absent, NoInteger} \cup { Decimal(i) : i \in QueryInts }

\* strconv.Atoi(value): the integer a decimal text denotes, or an error for
\* any other text and for an integer that does not fit the int type.
Atoi(value) ==
    IF value.kind = "int" /\ value.i >= MinInt /\ value.i <= MaxInt
    THEN [err |-> FALSE, i |-> value.i]
    ELSE [err |-> TRUE, i |-> 0]

\* parseInt(value, min, max, defaultValue)
parseInt(value, min, max, defaultValue) ==
    IF value.kind # "absent" /\ ~Atoi(value).err
    THEN LET i == Atoi(value).i
         IN CASE i < min -> min
              [] i > max -> max
              [] OTHER -> i
    ELSE defaultValue

\* getPage(values): max and skip of the query parameters.
getPage(values) ==
    [max |-> parseInt(values.max, 1, serverConfig.PageSize * 10,
                      serverConfig.PageSize),
     skip |-> parseInt(values.skip, 0, serverConfig.MaxCapacity, 0)]

InitPage ==
    /\ db = [n \in {} |-> n]
    /\ hnd = [h \in {} |-> h]
    /\ now = 0
    /\ ret = NoRet
    /\ hist = [n \in {} |-> n]
    /\ pc = [p \in {} |-> p]
    /\ keys = <<>>
    /\ serverConfig \in ServerConfigs

CallGetPage(values) ==
    /\ ret' = [op |-> "getPage", values |-> values, page |-> getPage(values)]
    /\ UNCHANGED <<db, hnd, now, hist, pc, keys, serverConfig>>

NextPage == \E values \in [max : QueryValues, skip : QueryValues] :
                CallGetPage(values)

SpecPage == InitPage /\ [][NextPage]_vars

----------------------------------------------------------------------------
(* The management API (SpecApi): the handlers of /api/baskets/:basket and  *)
(* below, each one atomic.  A request carries a basket name, the value of  *)
(* its Authorization header ("" when it has none) and, for some handlers,  *)
(* a body.  A name, a URL and a method are texts the handlers look into;   *)
(* what the handlers can see of each text is tabulated here.               *)

serviceOldAPIPath == "baskets"
serviceAPIPath == "api"
serviceUIPath == "web"

\* The names requests carry: the characters and the length of each ("x251"
\* stands for a name of 251 letters x).
NameShape ==
    ("a" :> [chars |-> {"a"}, len |-> 1])
    @@ ("baskets" :> [chars |-> {"b", "a", "s", "k", "e", "t"}, len |-> 7])
    @@ ("api" :> [chars |-> {"a", "p", "i"}, len |-> 3])
    @@ ("web" :> [chars |-> {"w", "e", "b"}, len |-> 3])
    @@ ("a b" :> [chars |-> {"a", " ", "b"}, len |-> 3])
    @@ ("x251" :> [chars |-> {"x"}, len |-> 251])
    @@ ("b" :> [chars |-> {"b"}, len |-> 1])

ApiNames == {"a", "baskets", "api", "web", "a b", "x251"}

\* The characters of [\w\d\-_\.] that the names above are written with.
NameChars == {"a", "b", "e", "i", "k", "p", "s", "t", "w", "x", "-", "_", "."}

\* A pattern that bounds the length only.
validBasketNameAnyChars(name) == NameShape[name].len \in 1..250

\* validBasketName.MatchString(name), basketNamePattern being
\* ^[\w\d\-_\.]{1,250}$
validBasketName(name) ==
    /\ NameShape[name].chars \subseteq NameChars
    /\ NameShape[name].len \in 1..250

\* The Authorization headers requests carry: none, a basket token, or the
\* master token.
AuthHeaders == {"", "t1", "master"}

\* A request body: empty, or bytes that are no JSON object of the expected
\* types, or a JSON object, given by the struct fields it sets.
EmptyBody == [kind |-> "empty"]
MalformedBody == [kind |-> "malformed"]
Object(fields) == [kind |-> "object", fields |-> fields]

\* json.Unmarshal(body, &into): the fields named in the object are set, the
\* others keep the value they had.
Unmarshal(body, into) ==
    IF body.kind = "malformed"
    THEN [err |-> TRUE, value |-> into]
    ELSE [err |-> FALSE,
          value |-> [f \in DOMAIN into |->
                        IF f \in DOMAIN body.fields
                        THEN body.fields[f]
                        ELSE into[f]]]

\* What url.ParseRequestURI sees of a URL text: it has a scheme, or it starts
\* with a slash, or neither.
URLShape ==
    ("http://ext" :> "absolute") @@ ("/a" :> "path") @@ ("ext" :> "relative")

\* url.ParseRequestURI(rawURL): only an absolute URI or an absolute path parses.
ParseRequestURI(rawURL) == [err |-> URLShape[rawURL] = "relative"]

BasketBodies ==
    {EmptyBody, MalformedBody, Object([f \in {} |-> f])}
        \cup { Object("Capacity" :> c) : c \in 0..(MaxCap + 1) }
        \cup { Object("ForwardURL" :> u) : u \in {"http://ext", "ext"} }

\* authorizeRequest(w, r, create, config): every statement but "return true"
\* is commented out.
authorizeRequest(token, create) == [ok |-> TRUE, status |-> 0]

\* getAuthorizedBasket(w, r, ps, config): the basket of the name, whatever
\* the Authorization header (the check of the token is commented out).
getAuthorizedBasket(d, name, token) ==
    IF ~validBasketName(name)
    THEN [ok |-> FALSE, status |-> 400]
    ELSE IF Exists(d, name)
         THEN [ok |-> TRUE, status |-> 0, basket |-> Get(d, name)]
         ELSE [ok |-> FALSE, status |-> 404]

\* validateBasketConfig(config)
validateBasketConfig(config) ==
    [err |-> \/ config.Capacity < 1
             \/ config.Capacity > serverConfig.MaxCapacity
             \/ (config.ForwardURL # "" /\ ParseRequestURI(config.ForwardURL).err)]

\* validateResponseConfig that checks the status only.
validateResponseConfigStatusOnly(response) ==
    [err |-> response.Status < 100 \/ response.Status >= 600]

\* validateResponseConfig(config)
validateResponseConfig(response) ==
    [err |-> \/ response.Status < 100
             \/ response.Status >= 600
             \/ (response.IsTemplate /\ response.Body # ""
                    /\ ~TemplateParses(response.Body))]

\* strings.ToUpper on the method names requests carry.
ToUpper == ("post" :> "POST") @@ ("POST" :> "POST") @@ ("brew" :> "BREW")

MethodNames == DOMAIN ToUpper

\* getValidMethod(ps)
getValidMethod(name) ==
    LET method == ToUpper[name]
    IN IF method \in {"GET", "HEAD", "POST", "PUT", "PATCH", "DELETE",
                      "CONNECT", "OPTIONS", "TRACE"}
       THEN [err |-> FALSE, method |-> method]
       ELSE [err |-> TRUE, method |-> ""]

ResponseBodies ==
    {EmptyBody, MalformedBody, Object([f \in {} |-> f])}
        \cup { Object("Status" :> c) : c \in {99, 100, 600} }
        \cup { Object(("Status" :> 599) @@ ("Body" :> "welcome")
                        @@ ("IsTemplate" :> TRUE)) }
        \cup { Object(("Body" :> "{{") @@ ("IsTemplate" :> t)) : t \in BOOLEAN }

\* What a handler answers when it writes no body.
NoOut == <<>>

InitApi ==
    /\ db = [n \in {} |-> n]
    /\ hnd = [h \in {} |-> h]
    /\ now = 0
    /\ ret = NoRet
    /\ hist = [n \in {} |-> n]
    /\ pc = [p \in {} |-> p]
    /\ keys = <<>>
    /\ serverConfig \in ServerConfigs

\* What the handlers leave alone.
ApiFrame == UNCHANGED <<hnd, now, pc, keys, serverConfig>>

\* CreateBasket: POST /api/baskets/:basket
CreateBasket(name, token, body, newToken) ==
    LET auth == authorizeRequest(token, TRUE)
        config == [ForwardURL |-> "", ProxyResponse |-> FALSE,
                   Capacity |-> serverConfig.InitCapacity]
        parsed == IF body.kind = "empty"
                  THEN [err |-> FALSE, value |-> config]
                  ELSE Unmarshal(body, config)
        created == Create(db, name, parsed.value, newToken)
        answer ==
            CASE ~auth.ok -> [status |-> auth.status, out |-> NoOut, base |-> db]
              [] auth.ok /\ name \in {serviceOldAPIPath, serviceAPIPath,
                                       serviceUIPath} ->
                    [status |-> 403, out |-> NoOut, base |-> db]
              [] OTHER ->
                    IF ~validBasketName(name)
                    THEN [status |-> 400, out |-> NoOut, base |-> db]
                    ELSE IF parsed.err
                    THEN [status |-> 400, out |-> NoOut, base |-> db]
                    ELSE IF body.kind # "empty"
                            /\ validateBasketConfig(parsed.value).err
                    THEN [status |-> 422, out |-> NoOut, base |-> db]
                    ELSE IF created.err # <<>>
                    THEN [status |-> 409, out |-> NoOut, base |-> db]
                    ELSE [status |-> 201, out |-> created.Token,
                          base |-> created.base]
    IN /\ db' = answer.base
       /\ hist' = IF answer.status = 201 THEN (name :> NewHist) @@ hist ELSE hist
       /\ ret' = [op |-> "CreateBasket", name |-> name, token |-> token,
                  body |-> body, status |-> answer.status, out |-> answer.out,
                  before |-> db]
       /\ ApiFrame

\* GetBasket: GET /api/baskets/:basket
GetBasket(name, token) ==
    LET g == getAuthorizedBasket(db, name, token)
    IN /\ ret' = [op |-> "GetBasket", name |-> name, token |-> token,
                  status |-> IF g.ok THEN 200 ELSE g.status,
                  out |-> IF g.ok THEN Config(g.basket) ELSE NoOut,
                  before |-> db]
       /\ UNCHANGED <<db, hist>>
       /\ ApiFrame

\* UpdateBasket: PUT /api/baskets/:basket
UpdateBasket(name, token, body) ==
    LET g == getAuthorizedBasket(db, name, token)
        parsed == Unmarshal(body, Config(g.basket))
        answer ==
            IF ~g.ok
            THEN [status |-> g.status, base |-> db]
            ELSE IF body.kind = "empty"
            THEN [status |-> 304, base |-> db]
            ELSE IF parsed.err
            THEN [status |-> 400, base |-> db]
            ELSE IF validateBasketConfig(parsed.value).err
            THEN [status |-> 422, base |-> db]
            ELSE [status |-> 204,
                  base |-> Update(db, g.basket, parsed.value).base]
    IN /\ db' = answer.base
       /\ hist' = IF answer.status = 204
                  THEN [hist EXCEPT ![name].onlyAdds = FALSE]
                  ELSE hist
       /\ ret' = [op |-> "UpdateBasket", name |-> name, token |-> token,
                  body |-> body, status |-> answer.status, out |-> NoOut,
                  before |-> db]
       /\ ApiFrame

\* DeleteBasket: DELETE /api/baskets/:basket
DeleteBasket(name, token) ==
    LET g == getAuthorizedBasket(db, name, token)
    IN /\ db' = IF g.ok THEN Delete(db, name) ELSE db
       /\ hist' = IF g.ok THEN [n \in DOMAIN hist \ {name} |-> hist[n]] ELSE hist
       /\ ret' = [op |-> "DeleteBasket", name |-> name, token |-> token,
                  status |-> IF g.ok THEN 204 ELSE g.status, out |-> NoOut,
                  before |-> db]
       /\ ApiFrame

\* GetBasketResponse: GET /api/baskets/:basket/responses/:method
GetBasketResponse(name, token, methodName) ==
    LET g == getAuthorizedBasket(db, name, token)
        valid == getValidMethod(methodName)
        response == GetResponse(g.basket, valid.method)
        answer ==
            IF ~g.ok
            THEN [status |-> g.status, out |-> NoOut]
            ELSE IF valid.err
            THEN [status |-> 400, out |-> NoOut]
            ELSE [status |-> 200,
                  out |-> IF response.exists THEN response.response
                          ELSE defaultResponse]
    IN /\ ret' = [op |-> "GetBasketResponse", name |-> name, token |-> token,
                  method |-> methodName, status |-> answer.status,
                  out |-> answer.out, before |-> db]
       /\ UNCHANGED <<db, hist>>
       /\ ApiFrame

\* UpdateBasketResponse: PUT /api/baskets/:basket/responses/:method
UpdateBasketResponse(name, token, methodName, body) ==
    LET g == getAuthorizedBasket(db, name, token)
        valid == getValidMethod(methodName)
        parsed == Unmarshal(body, [Status |-> defaultResponse.Status,
                                   Headers |-> <<>>, Body |-> "",
                                   IsTemplate |-> FALSE])
        answer ==
            IF ~g.ok
            THEN [status |-> g.status, base |-> db]
            ELSE IF valid.err
            THEN [status |-> 400, base |-> db]
            ELSE IF body.kind = "empty"
            THEN [status |-> 304, base |-> db]
            ELSE IF parsed.err
            THEN [status |-> 400, base |-> db]
            ELSE IF validateResponseConfig(parsed.value).err
            THEN [status |-> 422, base |-> db]
            ELSE [status |-> 204,
                  base |-> SetResponse(db, g.basket, valid.method,
                                       parsed.value).base]
    IN /\ db' = answer.base
       /\ hist' = IF answer.status = 204
                  THEN [hist EXCEPT
                            ![name].onlyAdds = FALSE,
                            ![name].set = (valid.method :> parsed.value) @@ @]
                  ELSE hist
       /\ ret' = [op |-> "UpdateBasketResponse", name |-> name,
                  token |-> token, method |-> methodName, body |-> body,
                  status |-> answer.status, out |-> NoOut, before |-> db]
       /\ ApiFrame

\* GetBasketRequests: GET /api/baskets/:basket/requests
GetBasketRequests(name, token, values) ==
    LET g == getAuthorizedBasket(db, name, token)
        page == getPage(values)
    IN /\ ret' = [op |-> "GetBasketRequests", name |-> name, token |-> token,
                  status |-> IF g.ok THEN 200 ELSE g.status,
                  out |-> IF ~g.ok THEN NoOut
                          ELSE IF values.q # <<>>
                          THEN FindRequests(g.basket, values.q, values.in,
                                            page.max, page.skip)
                          ELSE GetRequests(g.basket, page.max, page.skip),
                  before |-> db]
       /\ UNCHANGED <<db, hist>>
       /\ ApiFrame

\* ClearBasket: DELETE /api/baskets/:basket/requests
ClearBasket(name, token) ==
    LET g == getAuthorizedBasket(db, name, token)
    IN /\ db' = IF g.ok THEN Clear(db, g.basket).base ELSE db
       /\ hist' = IF g.ok THEN [hist EXCEPT ![name].onlyAdds = FALSE] ELSE hist
       /\ ret' = [op |-> "ClearBasket", name |-> name, token |-> token,
                  status |-> IF g.ok THEN 204 ELSE g.status, out |-> NoOut,
                  before |-> db]
       /\ ApiFrame

\* The query parameters of the requests for a page of requests.
ApiValues ==
    [q : {<<>>, <<"q">>}, in : {"any"}, max : {Absent, Decimal(1)},
     skip : {Absent}]

\* The names of the requests that do not create a basket: a basket, a name
\* that is none, and a text that is no name.
BasketNames == {"a", "x251", "a b"}

\* The requests tried: every body with the name "a", and every name with an
\* empty body, each with every Authorization header.
NextApi ==
    \E token \in AuthHeaders :
        \/ \E name \in ApiNames, newToken \in GenerateToken :
              CreateBasket(name, token, EmptyBody, newToken)
        \/ \E body \in BasketBodies, newToken \in GenerateToken :
              CreateBasket("a", token, body, newToken)
        \/ \E body \in BasketBodies : UpdateBasket("a", token, body)
        \/ \E name \in BasketNames :
              \/ UpdateBasket(name, token, Object("Capacity" :> 1))
              \/ GetBasket(name, token)
              \/ DeleteBasket(name, token)

SpecApi == InitApi /\ [][NextApi]_vars

\* The handlers of the responses and of the requests of a basket
\* (SpecApiData) start with basket "a" created, and "b" not.
DataNames == {"a", "b", "a b"}

InitApiData ==
    /\ db = Create([n \in {} |-> n], "a",
                   [ForwardURL |-> "", ProxyResponse |-> FALSE,
                    Capacity |-> MaxCap], "t1").base
    /\ hnd = [h \in {} |-> h]
    /\ now = 0
    /\ ret = NoRet
    /\ hist = ("a" :> NewHist)
    /\ pc = [p \in {} |-> p]
    /\ keys = <<>>
    /\ serverConfig = DefaultServerConfig

\* The requests tried: every method and body with the name "a", and every
\* name with one method and body, each with every Authorization header.
NextApiData ==
    \/ \E token \in AuthHeaders :
          \/ \E methodName \in MethodNames :
                \/ GetBasketResponse("a", token, methodName)
                \/ \E body \in ResponseBodies :
                      UpdateBasketResponse("a", token, methodName, body)
          \/ \E name \in DataNames :
                \/ GetBasketResponse(name, token, "POST")
                \/ UpdateBasketResponse(name, token, "POST",
                                        Object("Status" :> 100))
                \/ \E values \in ApiValues :
                      GetBasketRequests(name, token, values)
                \/ ClearBasket(name, token)
    \/ \E name \in DataNames : CallCapture(name, FwdReq)

SpecApiData == InitApiData /\ [][NextApiData]_vars

----------------------------------------------------------------------------
(* Claims about the stored requests and the total counter (Spec). *)

\* What a fresh Registry.Get(name) observes.
Stored(name) == Get(db, name)

\* C1: in every reachable state, what a fresh Registry.Get observes of a
\* basket holds at most Capacity requests, when every change to the basket
\* was made through an object just obtained by Registry.Get.
C1_StoredWithinCapacity ==
    \A name \in DOMAIN db :
        hist[name].clean =>
            Size(Stored(name)) <= Config(Stored(name)).Capacity

\* C2: after N sequential Adds to a newly created basket of capacity C the
\* basket holds exactly the min(N, C) newest snapshots, newest first, each
\* once.
C2_NewestFirstAfterAdds ==
    \A name \in DOMAIN db :
        (hist[name].onlyAdds /\ hist[name].clean) =>
            LET b == Stored(name)
                n == Len(hist[name].log)
                c == Config(b).Capacity
            IN /\ Size(b) = Min(n, c)
               /\ b.Requests = Take(hist[name].log, c)
               /\ \A i \in 1..Size(b) : Count(b.Requests, b.Requests[i]) = 1

\* C4: the total counter of a basket equals the number of Adds since its
\* creation, whatever was evicted, updated, cleared or configured since.
C4_TotalCountsAdds ==
    \A name \in DOMAIN db :
        /\ db[name].totalCount = Len(hist[name].log)
        /\ \A max \in Pages, skip \in Pages :
              GetRequests(Stored(name), max, skip).TotalCount
                  = Len(hist[name].log)

C4_Witness ==
    \E name \in DOMAIN db :
        /\ Len(hist[name].log) > Config(Stored(name)).Capacity
        /\ ~hist[name].onlyAdds
        /\ Size(Stored(name)) < Len(hist[name].log)
        /\ "POST" \in DOMAIN db[name].responses
        /\ db[name].totalCount = MaxAdds

\* C5: Create on an existing name fails with an error naming it, returns no
\* token and changes nothing; Create on a free name succeeds with a
\* non-empty token that the new basket authorizes.
C5_CreateConflict ==
    ret.op = "Create" =>
        IF ret.name \in DOMAIN ret.before
        THEN /\ ret.err # <<>>
             /\ \E i \in 1..Len(ret.err) : ret.err[i] = ret.name
             /\ ret.Token = ""
             /\ db = ret.before
        ELSE /\ ret.err = <<>>
             /\ ret.Token # ""
             /\ Exists(db, ret.name)
             /\ Authorize(Stored(ret.name), ret.Token)

C5_Witness ==
    /\ ret.op = "Create"
    /\ ret.err # <<>>
    /\ db[ret.name].requests # <<>>
    /\ db[ret.name].totalCount > Len(db[ret.name].requests)
    /\ "POST" \in DOMAIN db[ret.name].responses

\* C10: Update with a capacity below the current size keeps exactly the
\* newest Capacity snapshots in their order; with a capacity at or above it
\* the sequence is unchanged; Config() returns the new config either way,
\* and a fresh Registry.Get observes the same when every change was made
\* through a fresh object.
C10_UpdateTruncatesOldest ==
    ret.op = "Update" =>
        LET b == hnd[ret.h]
            c == ret.config.Capacity
            expected == IF c < Len(ret.before)
                        THEN [i \in 1..c |-> ret.before[i]]
                        ELSE ret.before
        IN /\ b.Requests = expected
           /\ Config(b) = ret.config
           /\ (Exists(db, b.Key) /\ hist[b.Key].clean) =>
                 /\ Stored(b.Key).Requests = expected
                 /\ Config(Stored(b.Key)) = ret.config

C10_Witness ==
    /\ ret.op = "Update"
    /\ ret.config.Capacity < Len(ret.before)
    /\ Len(ret.before) >= 2
    /\ Exists(db, hnd[ret.h].Key)
    /\ hist[hnd[ret.h].Key].clean
    /\ Size(Stored(hnd[ret.h].Key)) = ret.config.Capacity

----------------------------------------------------------------------------
(* Claims about the response configs (SpecResp). *)

\* What the history says GetResponse(method) returns.
LastSet(name, method) ==
    IF method \in DOMAIN hist[name].set
    THEN [exists |-> TRUE, response |-> hist[name].set[method]]
    ELSE [exists |-> FALSE]

\* C12: GetResponse(method) is absent when no response was set for the
\* method since Create, else the config of the latest SetResponse for it;
\* SetResponse replaces the config of its method only and leaves the other
\* methods, the stored requests and the total counter as they were.
C12_ResponseUpsert ==
    /\ \A name \in DOMAIN db : \A m \in ResponseMethods :
          GetResponse(Stored(name), m) = LastSet(name, m)
    /\ (ret.op = "GetResponse" /\ ret.fresh) =>
          ret.result = LastSet(hnd[ret.h].Key, ret.method)
    /\ ret.op = "SetResponse" =>
          LET b == hnd[ret.h]
              o == ret.before
          IN /\ GetResponse(b, ret.method)
                    = [exists |-> TRUE, response |-> ret.response]
             /\ \A m \in ResponseMethods \ {ret.method} :
                    GetResponse(b, m) = GetResponse(o, m)
             /\ b.Requests = o.Requests
             /\ b.TotalCount = o.TotalCount
             /\ IF Exists(ret.base, b.Key)
                THEN /\ Exists(db, b.Key)
                     /\ db[b.Key] = [ret.base[b.Key] EXCEPT !.responses =
                                        (ret.method :> ret.response) @@ @]
                ELSE db = ret.base

C12_Witness ==
    /\ ret.op = "SetResponse"
    /\ ret.method \in DOMAIN ret.before.Responses
    /\ ret.before.Responses[ret.method] # ret.response
    /\ DOMAIN hnd[ret.h].Responses = ResponseMethods
    /\ hnd[ret.h].Responses["GET"] # hnd[ret.h].Responses["POST"]
    /\ Size(ret.before) > 0
    /\ Exists(db, ret.before.Key)
    /\ DOMAIN db[ret.before.Key].responses = ResponseMethods

----------------------------------------------------------------------------
(* Claims about the registry (SpecReg, SpecNames, SpecStats). *)

\* C13: after Delete(name) the name is absent (Get returns nil, no error),
\* every other basket is exactly what it was, deleting an absent name
\* changes nothing and deleting twice is deleting once; Get returns nil
\* exactly for the names that do not exist.
C13_DeleteIdempotent ==
    /\ ret.op = "Delete" =>
          /\ ~Exists(db, ret.name)
          /\ DOMAIN db = DOMAIN ret.before \ {ret.name}
          /\ \A other \in DOMAIN db : db[other] = ret.before[other]
          /\ ~Exists(ret.before, ret.name) => db = ret.before
    /\ \A name \in RegNames :
          Delete(Delete(db, name), name) = Delete(db, name)
    /\ ret.op = "GetNil" => ~Exists(db, ret.name)
    /\ ret.op = "Get" => Exists(db, hnd[ret.h].Key)

C13_Witness ==
    /\ ret.op = "Delete"
    /\ Exists(ret.before, ret.name)
    /\ ret.before[ret.name].requests # <<>>
    /\ \E other \in DOMAIN db : db[other].requests # <<>>

\* The names created and not deleted since.
Created == DOMAIN hist

\* C14: Size() is the number of names created and not deleted since, whatever
\* the number of pages the Base returns them in (no Fetch failing).
C14_SizeCountsNames ==
    (ret.op = "Size" /\ ret.env.failAt = 0) =>
        /\ ret.size = Cardinality(Created)
        /\ ret.size = Cardinality(DOMAIN db)

C14_Witness ==
    /\ ret.op = "Size"
    /\ ret.env.failAt = 0
    /\ ret.env.limit = 1
    /\ ret.env.reuse
    /\ ret.size = 2
    /\ Len(keys) = 1

\* C15: GetNames(max, skip) pages over the current names for every skip:
\* Count is the number of existing baskets, the page holds names of existing
\* baskets only, and HasMore is skip + max < Count (no Fetch failing).
C15_GetNamesCurrent ==
    (ret.op = "GetNames" /\ ret.env.failAt = 0) =>
        /\ ret.page.Count = Cardinality(DOMAIN db)
        /\ \A i \in 1..Len(ret.page.Names) : Exists(db, ret.page.Names[i])
        /\ ret.page.HasMore <=> (ret.skip + ret.max < ret.page.Count)

\* C16: FindNames(query, max, skip) returns the matches numbered skip+1 ..
\* skip+max among the existing names that contain query: existing, matching
\* names only, and some name whenever skip+1 names match and max >= 1.
C16_FindNamesMatches ==
    ret.op = "FindNames" =>
        LET matching == {name \in DOMAIN db : Contains(<<name>>, ret.query)}
            n == Max(0, Min(ret.skip + ret.max, Cardinality(matching)) - ret.skip)
        IN /\ Len(ret.page.Names) = n
           /\ \A i \in 1..Len(ret.page.Names) : ret.page.Names[i] \in matching
           /\ (Cardinality(matching) >= ret.skip + 1 /\ ret.max >= 1) =>
                 ret.page.Names # <<>>

RECURSIVE MaxDate(_)
MaxDate(requests) ==
    IF requests = <<>> THEN 0
    ELSE Max(Head(requests).Date, MaxDate(Tail(requests)))

\* C17: GetStats folds every existing basket exactly once, whatever the
\* number of pages, with its stored size, its total (the number of Adds
\* since Create) and the date of its newest stored snapshot, 0 when it is
\* empty (no Fetch failing).
C17_StatsFoldEachOnce ==
    (ret.op = "GetStats" /\ ret.env.failAt = 0) =>
        /\ Len(ret.infos) = Cardinality(DOMAIN db)
        /\ \A name \in DOMAIN db :
              Cardinality({i \in 1..Len(ret.infos) :
                              ret.infos[i].Name = name}) = 1
        /\ \A i \in 1..Len(ret.infos) :
              LET info == ret.infos[i]
              IN /\ Exists(db, info.Name)
                 /\ info.RequestsCount = Len(db[info.Name].requests)
                 /\ info.RequestsTotalCount = Len(hist[info.Name].log)
                 /\ info.LastRequestDate = MaxDate(db[info.Name].requests)
                 /\ db[info.Name].requests # <<>> =>
                       info.LastRequestDate = db[info.Name].requests[1].Date

C17_Witness ==
    /\ ret.op = "GetStats"
    /\ ret.env.failAt = 0
    /\ ret.env.limit = 1
    /\ Len(ret.infos) = 2
    /\ ret.infos[1].RequestsCount = 0
    /\ ret.infos[1].LastRequestDate = 0
    /\ ret.infos[2].RequestsCount = 2
    /\ ret.infos[2].LastRequestDate = 2

\* The names of the baskets on the pages fetched before the Fetch that
\* fails: the first (failAt - 1) * limit names in key order, or all of them
\* when no Fetch fails.
NamesFetched(env) ==
    LET all == SelectSeq(KeyOrder, LAMBDA k : k \in DOMAIN db)
    IN IF env.failAt = 0 THEN all ELSE Take(all, (env.failAt - 1) * env.limit)

\* C32: when a Fetch fails in the middle of a multi-page scan, GetStats
\* reports partial results: every basket of the pages fetched before the
\* failure is collected exactly once, no basket is collected twice, and no
\* more baskets are counted than exist.
C32_PartialScanNoDuplicates ==
    (ret.op = "GetStats" /\ ret.env.failAt > 0) =>
        /\ Len(ret.infos) <= Cardinality(DOMAIN db)
        /\ \A name \in DOMAIN db :
              Cardinality({i \in 1..Len(ret.infos) :
                              ret.infos[i].Name = name}) <= 1
        /\ \A k \in 1..Len(NamesFetched(ret.env)) :
              Cardinality({i \in 1..Len(ret.infos) :
                              ret.infos[i].Name = NamesFetched(ret.env)[k]}) = 1

----------------------------------------------------------------------------
(* Claims about forwarding (SpecFwd). *)

\* The handlers of the requests that came from outside clients.
Inbound == {p \in DOMAIN pc : Len(p) = 1}

\* C18: a handler forwards only when the forward URL of its basket is
\* non-empty and its request does not carry the do-not-forward marker;
\* every forwarded copy carries the marker, so no copy of a copy exists:
\* one inbound request has at most two handlers and two captures, whatever
\* the forward URLs of the baskets point at.
C18_OneForwardHop ==
    /\ \A p \in DOMAIN pc :
          /\ Len(p) <= 2
          /\ Len(p) > 1 => pc[p].mark
          /\ pc[p].fwd # "none" => pc[p].mode # "none"
          /\ pc[p].mode # "none" =>
                (~pc[p].mark /\ Config(hnd[p]).ForwardURL # "")
    /\ Cardinality(DOMAIN pc) <= 2 * Cardinality(Inbound)
    /\ now <= 2 * Cardinality(Inbound)

C18_Witness ==
    /\ Exists(db, "b")
    /\ db["a"].config.ForwardURL = "/b"
    /\ db["b"].config.ForwardURL = "/a"
    /\ DOMAIN pc = {<<1>>, <<1, 0>>}
    /\ \A p \in DOMAIN pc : pc[p].at = "done"
    /\ pc[<<1>>].fwd = "ok"
    /\ Size(Stored("a")) = 1
    /\ Size(Stored("b")) = 1

\* The reply writeBasketResponse owes the caller: the response config the
\* basket holds for the method, the default one (200) when it holds none.
OwnReply(name, method) ==
    IF method \in DOMAIN db[name].responses
    THEN [from |-> "basket",
          Status |-> db[name].responses[method].Status,
          Headers |-> db[name].responses[method].Headers,
          Body |-> db[name].responses[method].Body]
    ELSE [from |-> "basket", Status |-> 200, Headers |-> <<>>, Body |-> ""]

\* C19: a handler that forwards without proxying replies with the basket's
\* own response (or the default), whatever the state of its forward, not
\* sent yet, pending, succeeded or failed; the forward changes neither the
\* reply nor the basket, which holds exactly what the handlers have added.
C19_ForgetRepliesOwnResponse ==
    /\ \A p \in DOMAIN pc :
          pc[p].mode = "forget" =>
             /\ pc[p].at \in {"respond", "done"}
             /\ pc[p].at = "respond" => pc[p].reply = NoReply
             /\ pc[p].at = "done" =>
                   pc[p].reply = OwnReply(pc[p].to, pc[p].method)
    /\ \A name \in DOMAIN db :
          /\ db[name].requests = hist[name].log
          /\ db[name].totalCount = Len(hist[name].log)
    /\ \A p \in DOMAIN hnd :
          /\ Config(hnd[p]) = db[pc[p].to].config
          /\ hnd[p].Responses = db[pc[p].to].responses

C19_Witness ==
    \E p \in DOMAIN pc :
        /\ pc[p].mode = "forget"
        /\ pc[p].fwd = "pending"
        /\ pc[p].at = "done"
        /\ pc[p].reply.from = "basket"
        /\ pc[p].reply.Status = 201

\* C20: a handler that proxies the forward never sends the basket's own
\* response: it has replied only once its outbound call has returned, with
\* the status and headers of the upstream response when the call succeeded
\* and with 500 when it failed.
C20_ProxyRelaysUpstream ==
    \A p \in DOMAIN pc :
        pc[p].mode = "proxy" =>
           /\ pc[p].reply # NoReply <=> pc[p].fwd \in {"ok", "err"}
           /\ pc[p].reply # NoReply <=> pc[p].at = "done"
           /\ pc[p].fwd = "err" =>
                 (pc[p].reply.from = "error" /\ pc[p].reply.Status = 500)
           /\ pc[p].fwd = "ok" =>
                 /\ pc[p].reply.from = "upstream"
                 /\ LET target == TargetOf(Config(hnd[p]).ForwardURL)
                    IN IF target \in FwdNames
                       THEN LET up == pc[Append(p, 0)].reply
                            IN /\ pc[p].reply.Status = up.Status
                               /\ pc[p].reply.Headers = up.Headers
                       ELSE \E r \in ExtResponses :
                               /\ pc[p].reply.Status = r.StatusCode
                               /\ pc[p].reply.Headers = r.Header

C20_Witness ==
    \E p \in DOMAIN pc :
        /\ pc[p].mode = "proxy"
        /\ pc[p].to = "a"
        /\ "POST" \in DOMAIN db["a"].responses
        /\ pc[p].fwd = "ok"
        /\ pc[p].reply.from = "upstream"
        /\ pc[p].reply.Status = 200

\* The response config the basket holds for the method, or the default one.
ConfiguredFor(name, method) ==
    IF method \in DOMAIN db[name].responses
    THEN db[name].responses[method]
    ELSE [Status |-> 200, Headers |-> <<>>, Body |-> "", IsTemplate |-> FALSE]

\* C28: the reply to a captured request is the response config stored for
\* exactly the method of the request, and the default (200, empty body, no
\* template) when none is stored for it; when the chosen config is a template
\* whose body does not compile, the reply is a 500 and not the configured
\* status.
C28_ReplyByMethod ==
    \A p \in DOMAIN pc :
        pc[p].reply.from \in {"basket", "error"} =>
            LET chosen == ConfiguredFor(pc[p].to, pc[p].method)
            IN IF chosen.IsTemplate /\ chosen.Body # ""
                  /\ ~TemplateParses(chosen.Body)
               THEN pc[p].reply.Status = 500
               ELSE /\ pc[p].reply.Status = chosen.Status
                    /\ pc[p].reply.Headers = chosen.Headers
                    /\ pc[p].reply.Body = chosen.Body

\* A request has been answered 500 for the broken template of its method
\* while another method holds a sound response.
C28_Witness ==
    \E p \in DOMAIN pc :
        /\ pc[p].reply.from = "error"
        /\ pc[p].reply.Status = 500
        /\ ConfiguredFor("a", pc[p].method).Status = 404
        /\ \E m \in DOMAIN db["a"].responses :
              m # pc[p].method /\ db["a"].responses[m] = FwdResponse

\* The handlers that have got the basket of the name and gone past Get.
PastGet(name) ==
    { p \in DOMAIN pc : /\ pc[p].to = name
                        /\ pc[p].at # "get"
                        /\ pc[p].reply.from # "nobasket" }

\* C30: on the capture path the snapshot is stored and counted before any
\* forwarding is started and before any reply is written: a handler that has
\* not called Add yet has neither forwarded nor replied, and the snapshot of
\* every handler that has found its basket is in the stored list and in the
\* counter whatever became of its forward, a proxy-mode 500 included; a
\* capture to a name without a basket is answered 404, has added nothing
\* to any basket and has created none.
C30_StoredBeforeForwardAndReply ==
    /\ \A p \in DOMAIN pc :
          /\ pc[p].at = "get" =>
                (pc[p].mode = "none" /\ pc[p].fwd = "none"
                    /\ pc[p].reply = NoReply)
          /\ p \in PastGet(pc[p].to) =>
                /\ pc[p].to \in DOMAIN db
                /\ p \in DOMAIN hnd
                /\ hnd[p].Requests # <<>>
                /\ Count(db[pc[p].to].requests, hnd[p].Requests[1]) = 1
          /\ pc[p].reply.from = "nobasket" =>
                /\ pc[p].reply.Status = 404
                /\ pc[p].to \notin DOMAIN db
                /\ p \notin DOMAIN hnd
    /\ \A name \in DOMAIN db :
          /\ db[name].totalCount = Cardinality(PastGet(name))
          /\ Len(db[name].requests) = Cardinality(PastGet(name))

\* A handler has proxied its request to the capture path of a name without
\* a basket: the copy was answered 404, the handler answered 500, and its
\* snapshot is stored.
C30_Witness ==
    /\ <<1, 0>> \in DOMAIN pc
    /\ pc[<<1, 0>>].reply.from = "nobasket"
    /\ pc[<<1>>].mode = "proxy"
    /\ pc[<<1>>].reply = ErrorReply
    /\ Len(db[pc[<<1>>].to].requests) = 1

----------------------------------------------------------------------------
(* Claims about the read-only calls (SpecRead). *)

\* C6: GetRequests(max, skip) returns exactly the elements at indices
\* [skip, min(skip+max, size)) of the sequence, never more than max, none
\* when skip >= size; Count is the size and TotalCount the total counter.
C6_GetRequestsPage ==
    ret.op = "GetRequests" =>
        LET b == hnd[ret.h]
            size == Len(b.Requests)
            n == Max(0, Min(ret.skip + ret.max, size) - ret.skip)
        IN /\ Len(ret.page.Requests) = n
           /\ \A i \in 1..n : ret.page.Requests[i] = b.Requests[ret.skip + i]
           /\ n <= ret.max
           /\ ret.skip >= size => n = 0
           /\ ret.page.Count = size
           /\ ret.page.TotalCount = b.TotalCount

C6_Witness ==
    /\ ret.op = "GetRequests"
    /\ ret.skip > 0
    /\ ret.skip + ret.max > Size(hnd[ret.h])
    /\ Len(ret.page.Requests) > 0
    /\ ret.page.TotalCount > ret.page.Count

\* C7: GetRequests(max, skip).HasMore is true iff skip + max < size; a skip
\* at or beyond the size yields an empty page with HasMore false.
C7_GetRequestsHasMore ==
    ret.op = "GetRequests" =>
        LET size == Size(hnd[ret.h])
        IN /\ ret.page.HasMore <=> (ret.skip + ret.max < size)
           /\ ret.skip >= size =>
                 (ret.page.Requests = <<>> /\ ~ret.page.HasMore)

C7_Witness ==
    /\ ret.op = "GetRequests"
    /\ ret.max > 0
    /\ ret.skip + ret.max = Size(hnd[ret.h])
    /\ ~ret.page.HasMore

\* The positions of the stored sequence that match, in stored order.
RECURSIVE MatchPositions(_, _, _, _)
MatchPositions(requests, query, in, from) ==
    IF from > Len(requests) THEN <<>>
    ELSE IF Matches(requests[from], query, in)
         THEN <<from>> \o MatchPositions(requests, query, in, from + 1)
         ELSE MatchPositions(requests, query, in, from + 1)

\* C8: FindRequests returns, in stored order, exactly the matches numbered
\* skip+1 .. skip+max among all matches (fewer if fewer exist): never a
\* non-matching snapshot and never more than max.
C8_FindRequestsPage ==
    ret.op = "FindRequests" =>
        LET b == hnd[ret.h]
            pos == MatchPositions(b.Requests, ret.query, ret.in, 1)
            n == Max(0, Min(ret.skip + ret.max, Len(pos)) - ret.skip)
        IN /\ Len(ret.page.Requests) = n
           /\ \A i \in 1..n :
                 ret.page.Requests[i] = b.Requests[pos[ret.skip + i]]
           /\ n <= ret.max
           /\ \A i \in 1..n :
                 Matches(ret.page.Requests[i], ret.query, ret.in)

C8_Witness ==
    /\ ret.op = "FindRequests"
    /\ ret.skip > 0
    /\ Len(ret.page.Requests) > 0
    /\ ~Matches(hnd[ret.h].Requests[1], ret.query, ret.in)
    /\ ret.page.Requests[1] = hnd[ret.h].Requests[Size(hnd[ret.h])]

\* C9: FindRequests reports HasMore = false iff its scan examined the whole
\* stored sequence, for every max >= 0 and for an empty basket too.
C9_FindRequestsHasMore ==
    ret.op = "FindRequests" =>
        (ret.page.HasMore = FALSE <=> ret.page.Scanned = Size(hnd[ret.h]))

C9_Witness ==
    /\ ret.op = "FindRequests"
    /\ ret.max > 0
    /\ Len(ret.page.Requests) = ret.max
    /\ ret.page.Scanned = Size(hnd[ret.h])
    /\ ~ret.page.HasMore

----------------------------------------------------------------------------
(* Claims about one basket object (SpecHandle). *)

\* C23: after any sequence of Add, Update, Clear and SetResponse applied to
\* a basket object, a basket obtained by a fresh Registry.Get answers as the
\* object does: the same GetRequests page for every max and skip (requests,
\* order, count, total_count), the same Config and the same GetResponse for
\* every method.
C23_FreshGetEqualsHandle ==
    \A h \in DOMAIN hnd :
        LET fresh == Get(db, hnd[h].Key)
        IN /\ Config(fresh) = Config(hnd[h])
           /\ \A max \in 1..(MaxAdds + 1), skip \in 0..MaxAdds :
                 GetRequests(fresh, max, skip) = GetRequests(hnd[h], max, skip)
           /\ \A method \in ResponseMethods :
                 GetResponse(fresh, method) = GetResponse(hnd[h], method)

\* C24: the access token of a basket is fixed at creation: whatever Add,
\* Update, SetResponse and Clear are applied, Authorize(t) holds for the
\* token t that Create returned and for no other token, on the stored basket
\* and on the object the calls are made on.
C24_TokenFixed ==
    \A t \in Tokens \cup {"", "master"} :
        /\ Authorize(Get(db, "a"), t) <=> (t = hist["a"].token)
        /\ \A h \in DOMAIN hnd :
              Authorize(hnd[h], t) <=> (t = hist["a"].token)

\* The basket has been added to, given a response, updated and then cleared.
C24_Witness ==
    /\ ret.op = "Clear"
    /\ hist["a"].log # <<>>
    /\ DOMAIN hist["a"].set # {}
    /\ Config(Get(db, "a")).Capacity = MaxCap
    /\ hist["a"].token = "t1"

----------------------------------------------------------------------------
(* Claims about the management API (SpecApi, SpecApiData). *)

\* C21: in restricted mode a basket-creation request that does not present
\* the master token is rejected as unauthorized (401) and creates no basket;
\* in public mode a creation request without a token is not turned away for
\* lack of one.
C21_RestrictedCreateNeedsMaster ==
    ret.op = "CreateBasket" =>
        /\ (serverConfig.Mode = ModeRestricted
                /\ ret.token # serverConfig.MasterToken)
              => (ret.status = 401 /\ db = ret.before)
        /\ (serverConfig.Mode = ModePublic /\ ret.token = "")
              => ret.status # 401

\* The basket-scoped handlers.
BasketOps ==
    {"GetBasket", "UpdateBasket", "DeleteBasket", "GetBasketResponse",
     "UpdateBasketResponse", "GetBasketRequests", "ClearBasket"}

\* C22: a basket-scoped operation is performed only for a caller whose token
\* the basket authorizes, or who presents the master token: with a missing or
\* wrong token the request to an existing basket is answered 401, changes
\* nothing and reveals nothing.
C22_BasketOpsNeedToken ==
    (/\ ret.op \in BasketOps
     /\ Exists(ret.before, ret.name)
     /\ ~Authorize(Get(ret.before, ret.name), ret.token)
     /\ ret.token # serverConfig.MasterToken)
        => (ret.status = 401 /\ db = ret.before /\ ret.out = NoOut)

\* The body of the last request sets a field of the basket config to a
\* value that is out of bounds or is no URL.
BadConfigBody ==
    /\ ret.body.kind = "object"
    /\ \/ /\ "Capacity" \in DOMAIN ret.body.fields
          /\ ret.body.fields["Capacity"] \notin 1..serverConfig.MaxCapacity
       \/ /\ "ForwardURL" \in DOMAIN ret.body.fields
          /\ URLShape[ret.body.fields["ForwardURL"]] = "relative"

\* The last request has created or updated the basket it names.
ConfigStored ==
    \/ ret.op = "CreateBasket" /\ ret.status = 201
    \/ ret.op = "UpdateBasket" /\ ret.status = 204

\* C25: every basket created or updated through CreateBasket or UpdateBasket
\* has a capacity in 1..MaxCapacity, whatever the body, an empty one
\* included; a request to create a basket of a free, valid name, or to update
\* an existing basket, whose body sets a capacity out of bounds or a forward
\* URL that does not parse is answered 422 and changes nothing.
C25_CapacityWithinBounds ==
    /\ ConfigStored =>
            db[ret.name].config.Capacity \in 1..serverConfig.MaxCapacity
    /\ (/\ ret.op \in {"CreateBasket", "UpdateBasket"}
        /\ BadConfigBody
        /\ validBasketName(ret.name)
        /\ ret.name \notin {serviceOldAPIPath, serviceAPIPath, serviceUIPath}
        /\ ret.op = "UpdateBasket" => Exists(ret.before, ret.name))
          => (ret.status = 422 /\ db = ret.before)

\* A response config that may be stored: the status is in 100..599 and a
\* template with a body parses.
ValidResponse(response) ==
    /\ response.Status \in 100..599
    /\ (response.IsTemplate /\ response.Body # "")
          => TemplateParses(response.Body)

\* The response config that the body of the last request asks for.
AskedResponse ==
    Unmarshal(ret.body, [Status |-> 200, Headers |-> <<>>, Body |-> "",
                         IsTemplate |-> FALSE]).value

\* C26: every response config stored through UpdateBasketResponse has a
\* status in 100..599 and, when it is a template with a body, a body that
\* parses; a request to an existing basket with an unknown method name is
\* answered 400, and one with a known method whose payload violates either
\* rule is answered 422, and both leave the stored responses as they were.
C26_ResponseValidated ==
    /\ \A name \in DOMAIN db : \A method \in DOMAIN db[name].responses :
            ValidResponse(db[name].responses[method])
    /\ (ret.op = "UpdateBasketResponse" /\ Exists(ret.before, ret.name)) =>
            /\ getValidMethod(ret.method).err
                  => (ret.status = 400 /\ db = ret.before)
            /\ (/\ ~getValidMethod(ret.method).err
                /\ ret.body.kind = "object"
                /\ ~ValidResponse(AskedResponse))
                  => (ret.status = 422 /\ db = ret.before)

\* A template that does not parse has been refused while a response is
\* stored, and a valid template has been stored.
C26_Witness ==
    /\ ret.op = "UpdateBasketResponse"
    /\ ret.status = 422
    /\ ret.body.kind = "object"
    /\ AskedResponse.Status = 200
    /\ Exists(db, "a")
    /\ "POST" \in DOMAIN db["a"].responses
    /\ db["a"].responses["POST"].IsTemplate

Reserved == {"baskets", "api", "web"}

\* The basket name pattern: 1 to 250 characters, each a letter, a digit, or
\* one of - _ .
WellFormed(name) ==
    /\ NameShape[name].len >= 1
    /\ NameShape[name].len <= 250
    /\ \A c \in NameShape[name].chars : c \in NameChars

\* C27: CreateBasket never creates a basket whose name is a reserved path
\* segment ("baskets", "api", "web") or does not match the name pattern: the
\* request is answered 403, respectively 400, and the stored baskets are
\* what they were, so no stored basket has such a name.
C27_NoReservedOrInvalidName ==
    /\ \A name \in DOMAIN db : name \notin Reserved /\ WellFormed(name)
    /\ ret.op = "CreateBasket" =>
            /\ ret.name \in Reserved
                  => (ret.status = 403 /\ db = ret.before)
            /\ (ret.name \notin Reserved /\ ~WellFormed(ret.name))
                  => (ret.status = 400 /\ db = ret.before)

\* A name that is too long has been refused, and so has a reserved one,
\* while a basket exists.
C27_Witness ==
    /\ ret.op = "CreateBasket"
    /\ ret.name \in {"x251", "a b", "web"}
    /\ ret.status \in {400, 403}
    /\ Exists(db, "a")

----------------------------------------------------------------------------
(* Claims about the pagination parameters (SpecPage). *)

\* What the claim lets one parameter become: the default when it is absent
\* or no integer, else the integer clamped to lo..hi.
Clamped(value, lo, hi, default) ==
    IF value.kind = "int"
    THEN Max(lo, Min(hi, value.i))
    ELSE default

\* C29: the pagination parameters handed to the storage engine are within
\* bounds: max is in [1, page_size*10] and is page_size when the parameter is
\* absent or not an integer, skip is in [0, max_capacity] and is 0 when
\* absent or not an integer, and an integer below or above the range is
\* clamped to the nearest bound.
C29_PageClamped ==
    ret.op = "getPage" =>
        /\ ret.page.max \in 1..(serverConfig.PageSize * 10)
        /\ ret.page.skip \in 0..serverConfig.MaxCapacity
        /\ ret.page.max = Clamped(ret.values.max, 1, serverConfig.PageSize * 10,
                                  serverConfig.PageSize)
        /\ ret.page.skip = Clamped(ret.values.skip, 0,
                                   serverConfig.MaxCapacity, 0)

----------------------------------------------------------------------------
(* Claims about concurrent handlers (SpecConc). *)

\* C3: when two capture requests for one basket are handled concurrently
\* (each handler Get, then Add), nothing else changes the basket and the
\* capacity has room for both, then once both have completed the stored
\* sequence holds each of the two snapshots exactly once.
C3_ConcurrentAddsKeepBoth ==
    (/\ \A p \in Captures : At(p, "done")
     /\ hist["a"].onlyAdds
     /\ Len(hist["a"].log) <= db["a"].config.Capacity) =>
        \A p \in Captures : Count(db["a"].requests, pc[p].data) = 1

C3_Witness ==
    /\ \A p \in Captures : At(p, "done")
    /\ hist["a"].onlyAdds
    /\ Len(hist["a"].log) <= db["a"].config.Capacity
    /\ hnd["c1"].TotalCount = hnd["c2"].TotalCount
    /\ Len(db["a"].requests) = 2

\* The captures whose Add has begun, and those whose Add has returned.
AddBegun == { p \in Captures : pc[p].at \in {"persist", "done"} }
AddReturned == { p \in Captures : At(p, "done") }

====
